---- MODULE Spec2Model ----
(***************************************************************************)
(* Match simulation of commenters-fight: the Game scene's frame loop       *)
(* (physics step with collider callbacks, then Game.update), the           *)
(* CollisionManager, GameStateManager, SpeedManager, RespawnManager and    *)
(* PlayerManager.                                                          *)
(*                                                                         *)
(* Strings that the code trims are sequences of one-character strings.    *)
(* Date.now() is the variable now (ms).  Velocities are integers in units *)
(* of 1/VelDen px/s, the speed multiplier is an integer in units of       *)
(* 1/MultDen.                                                              *)
(***************************************************************************)
EXTENDS Integers, Sequences, FiniteSets, TLC

VARIABLES
  pc,                          \* position of Game.create: "constructed", "fetching", "running"
  frame,                       \* position in the frame loop: "step" (physics step), "updated"
  now,                         \* Date.now()
  youtubeNames,                \* PlayerManager.youtubeNames
  boxes,                       \* Game.boxes.children.entries: sequence of player records
  scores,                      \* GameStateManager.scores (Map name -> number)
  gsm,                         \* the other fields of GameStateManager
  speed,                       \* SpeedManager fields
  camera,                      \* main camera scroll position
  recent,                      \* history: the contacts processed less than 500ms ago
  ev,                          \* history: what the last step did
  boostHist                    \* history: the speed boost since its activation

vars == <<pc, frame, now, youtubeNames, boxes, scores, gsm, speed, camera, recent, ev,
          boostHist>>

----------------------------------------------------------------------------
(* Program constants *)

GracePeriodMs == 3000
CollisionCooldownMs == 500
WinnerWaitMs == 3000
FightMessageMs == 1000
VerticalThreshold == 10
StompBoost == 150
MaxPlayers == 12
SpeedBoostBelow == 8
ProgressiveIntervalMs == 10000
ScoreLines == 8
MaxProgressiveBoosts == 8
HalfSpriteSize == 40
SpawnRadius == 150
RespawnRadius == 200

\* window.innerWidth / innerHeight of the page the game runs in
CameraWidth == 800
CameraHeight == 600

\* fixed-point denominators of the model's arithmetic: a speed multiplier is
\* a base in eighths times a progressive factor in quarters, and a velocity
\* stays exact through three bounces by 0.8 or 1.2
MultDen == 8 * 4
VelDen == 125 * MultDen

\* "ElodineCodes", the guaranteed player
ElodineCodes == <<"E">>

----------------------------------------------------------------------------
(* Bounds of the model *)

\* Date.now() at construction and how long a run is followed
Epoch == 4 * GracePeriodMs
MaxElapsed == 6500

\* time between two frames
Dts == {500, 3000}

\* vertical centre positions the physics step may give a player
Ys == {290, 300, 311}

\* the positions a physics step may give n players: all level, or all apart
Formations(n) ==
  {f \in [1 .. n -> Ys] : \/ \A i, j \in 1 .. n : f[i] = f[j]
                          \/ \A i, j \in 1 .. n : i # j => f[i] # f[j]}

\* name lists the comment data can yield (already trimmed and unique, see
\* CommentDataManager.extractNamesFromResponse)
NameLists == { <<>>, << <<"B">> >>, << <<"B">>, ElodineCodes, <<"C">> >> }

\* name lists followed when the scene fetches the names itself
FetchLists == { <<>>, << <<"B">>, ElodineCodes >> }

\* outcomes of getCommentThreads: the authors the service holds, delivered or not
FetchResults == [ok : BOOLEAN, names : FetchLists]

----------------------------------------------------------------------------
(* Random draws.  A draw of Math.random() is a numerator r in 0..RndDen-1; *)
(* rnd.r is the draw used by Phaser.Math.Between and rnd.d the direction   *)
(* picked by Phaser.Math.RND.pick([-1, 1]) during one handler.             *)

RndDen == 2

\* Phaser.Math.Between(min, max) = floor(random * (max - min + 1) + min)
Between(min, max, r) == min + (((max - min + 1) * r) \div RndDen)

Rnds == [r : 0 .. RndDen - 1, d : {-1, 1}]

\* the draws followed in the match specification
MatchRnds == {[r |-> 0, d |-> 1]}

----------------------------------------------------------------------------
(* String.prototype.trim and the roster *)

IsSpace(c) == c = " "

RECURSIVE TrimStart(_)
TrimStart(s) ==
  IF s # <<>> /\ IsSpace(Head(s)) THEN TrimStart(Tail(s)) ELSE s

RECURSIVE TrimEnd(_)
TrimEnd(s) ==
  IF s # <<>> /\ IsSpace(s[Len(s)]) THEN TrimEnd(SubSeq(s, 1, Len(s) - 1)) ELSE s

Trim(s) == TrimEnd(TrimStart(s))

InSeq(x, q) == \E i \in 1 .. Len(q) : q[i] = x

\* faulty variant: a list instead of a Set, so names repeat
SetAddAlways(q, x) == Append(q, x)

\* Set.add on an insertion-ordered Set
SetAdd(q, x) == IF InSeq(x, q) THEN q ELSE Append(q, x)

RECURSIVE AddCleanNames(_, _)
AddCleanNames(nameSet, names) ==
  IF names = <<>> THEN nameSet
  ELSE LET cleanName == Trim(Head(names))
       IN  AddCleanNames(IF cleanName # <<>> THEN SetAdd(nameSet, cleanName) ELSE nameSet,
                         Tail(names))

GetPlayerNames(names) == AddCleanNames(<<ElodineCodes>>, names)

GetTotalAvailablePlayerCount(names) == Len(GetPlayerNames(names))

GetActivePlayerCount(bs) == Len(bs)

ActiveNames(bs) == {bs[i].playerName : i \in 1 .. Len(bs)}

Min(a, b) == IF a < b THEN a ELSE b

----------------------------------------------------------------------------
(* PlayerManager: creation *)

CreatePlayer(x, y, playerName, rnd) ==
  LET horizontalSpeed == Between(50, 100, rnd.r)
      direction == rnd.d
  IN  [body                |-> TRUE,
       playerName          |-> playerName,
       x                   |-> x,
       y                   |-> y,
       vx                  |-> horizontalSpeed * direction * VelDen,
       vy                  |-> 0,
       nextFlapTime        |-> Between(1000, 3000, rnd.r),
       lastFlapTime        |-> 0,
       horizontalSpeed     |-> horizontalSpeed,
       direction           |-> direction,
       nextDirectionChange |-> Between(3000, 8000, rnd.r),
       lastDirectionChange |-> 0,
       lastCollision       |-> 0]

RECURSIVE CreateFirst(_, _, _)
\* the loop of createPlayers over availableNames[0 .. numBoxes-1]
CreateFirst(availableNames, numBoxes, rnd) ==
  IF numBoxes = 0 THEN <<>>
  ELSE LET centerX == CameraWidth \div 2
           centerY == CameraHeight \div 2
           x == Between(centerX - SpawnRadius, centerX + SpawnRadius, rnd.r)
           y == Between(centerY - SpawnRadius, centerY + SpawnRadius, rnd.r)
       IN  Append(CreateFirst(availableNames, numBoxes - 1, rnd),
                  CreatePlayer(x, y, availableNames[numBoxes], rnd))

CreatePlayers(names, rnd) ==
  LET availableNames == GetPlayerNames(names)
      numBoxes == Min(Len(availableNames), MaxPlayers)
  IN  CreateFirst(availableNames, numBoxes, rnd)

\* faulty variant: active names are not filtered out
AvailableNamesUnfiltered(names, bs) == GetPlayerNames(names)

\* the names spawnRandomPlayer may pick from
AvailableNames(names, bs) ==
  LET NotActive(name) == name \notin ActiveNames(bs)
  IN  SelectSeq(GetPlayerNames(names), NotActive)

\* the boxes after one spawnRandomPlayer that picks playerName
SpawnPlayer(bs, playerName, rnd) ==
  LET centerX == CameraWidth \div 2
      centerY == CameraHeight \div 2
      x == Between(centerX - RespawnRadius, centerX + RespawnRadius, rnd.r)
      y == Between(centerY - RespawnRadius, centerY + RespawnRadius, rnd.r)
  IN  Append(bs, CreatePlayer(x, y, playerName, rnd))

\* faulty variant: the name is picked among all roster names
SpawnRandomPlayerAny(names, bs, rnd) ==
  LET allPlayerNames == GetPlayerNames(names)
  IN  {SpawnPlayer(bs, allPlayerNames[k], rnd) : k \in 1 .. Len(allPlayerNames)}

\* faulty variant: with no name available the first roster name is spawned
SpawnRandomPlayerAgain(names, bs, rnd) ==
  LET availableNames == AvailableNames(names, bs)
  IN  IF Len(availableNames) = 0 THEN {SpawnPlayer(bs, GetPlayerNames(names)[1], rnd)}
      ELSE {SpawnPlayer(bs, availableNames[k], rnd) : k \in 1 .. Len(availableNames)}

\* every outcome of spawnRandomPlayer: nothing when no name is available
SpawnRandomPlayer(names, bs, rnd) ==
  LET availableNames == AvailableNames(names, bs)
  IN  IF Len(availableNames) = 0 THEN {bs}
      ELSE {SpawnPlayer(bs, availableNames[k], rnd) : k \in 1 .. Len(availableNames)}

\* faulty variant: the loop of the respawn spawns nobody
SpawnLoopNone(names, bs, playersToSpawn, rnd) == {bs}

RECURSIVE SpawnLoop(_, _, _, _)
\* every outcome of calling spawnRandomPlayer playersToSpawn times
SpawnLoop(names, bs, playersToSpawn, rnd) ==
  IF playersToSpawn <= 0 THEN {bs}
  ELSE UNION {SpawnLoop(names, b1, playersToSpawn - 1, rnd) :
                b1 \in SpawnRandomPlayer(names, bs, rnd)}

RECURSIVE SpawnLoopFirst(_, _, _, _)
\* the outcome of the same loop in which every Phaser.Math.RND.pick takes
\* the first available name
SpawnLoopFirst(names, bs, playersToSpawn, rnd) ==
  IF playersToSpawn <= 0 THEN {bs}
  ELSE LET availableNames == AvailableNames(names, bs)
       IN  IF Len(availableNames) = 0 THEN {bs}
           ELSE SpawnLoopFirst(names, SpawnPlayer(bs, availableNames[1], rnd),
                               playersToSpawn - 1, rnd)

\* faulty variant: the group loses its last member, whoever lost
RemovePlayerLast(bs, i) == SubSeq(bs, 1, Len(bs) - 1)

RemovePlayer(bs, i) == SubSeq(bs, 1, i - 1) \o SubSeq(bs, i + 1, Len(bs))

\* A player object after boxes.remove(player, true, true): destroy() has
\* dropped its body and its data, so it has no name and getData falls back
\* to the defaults; the object keeps its position.
DestroyedPlayer(y) ==
  [body |-> FALSE, playerName |-> <<>>, y |-> y, lastCollision |-> 0]

----------------------------------------------------------------------------
(* SpeedManager.  progressiveSpeedMultiplier is kept in quarters            *)
(* (4 = 1.0, one boost adds 1 = 0.25); the returned multiplier is in       *)
(* units of 1/MultDen (32 = 1.0, 48 = 1.5).                                *)

SpeedInit ==
  [speedBoostLogged           |-> FALSE,
   progressiveSpeedMultiplier |-> 4,
   progressiveBoostCount      |-> 0,
   lastProgressiveBoostTime   |-> 0]

SpeedReset(s) == SpeedInit

\* 1.5 below 8 players, else 1.0, in eighths
BaseSpeedMultiplier(activePlayers) ==
  IF activePlayers < SpeedBoostBelow THEN 12 ELSE 8

\* faulty variant: a boosted controller is not reset at 8 players or more
SpeedActivationNoReset(s, activePlayers, t) ==
  IF activePlayers < SpeedBoostBelow /\ ~s.speedBoostLogged
  THEN [speedBoostLogged           |-> TRUE,
        progressiveSpeedMultiplier |-> 4,
        progressiveBoostCount      |-> 0,
        lastProgressiveBoostTime   |-> t]
  ELSE s

\* faulty variant: the activation does not restart the 10s clock
SpeedActivationKeepsClock(s, activePlayers, t) ==
  IF activePlayers < SpeedBoostBelow /\ ~s.speedBoostLogged
  THEN [speedBoostLogged           |-> TRUE,
        progressiveSpeedMultiplier |-> 4,
        progressiveBoostCount      |-> 0,
        lastProgressiveBoostTime   |-> s.lastProgressiveBoostTime]
  ELSE IF activePlayers >= SpeedBoostBelow /\ s.speedBoostLogged
       THEN SpeedReset(s)
       ELSE s

\* first part of calculateSpeedMultiplier: activation / deactivation
SpeedActivation(s, activePlayers, t) ==
  IF activePlayers < SpeedBoostBelow /\ BaseSpeedMultiplier(activePlayers) > 8
     /\ ~s.speedBoostLogged
  THEN [speedBoostLogged           |-> TRUE,
        progressiveSpeedMultiplier |-> 4,
        progressiveBoostCount      |-> 0,
        lastProgressiveBoostTime   |-> t]
  ELSE IF activePlayers >= SpeedBoostBelow /\ s.speedBoostLogged
       THEN SpeedReset(s)
       ELSE s

\* faulty variant: the progressive increases are not capped
SpeedProgressUncapped(s, t) ==
  IF s.speedBoostLogged /\ t - s.lastProgressiveBoostTime >= ProgressiveIntervalMs
  THEN [s EXCEPT !.progressiveBoostCount = @ + 1,
                 !.progressiveSpeedMultiplier = @ + 1,
                 !.lastProgressiveBoostTime = t]
  ELSE s

\* faulty variant: a ninth increase is still applied
SpeedProgressNinth(s, t) ==
  IF s.speedBoostLogged /\ s.progressiveBoostCount <= MaxProgressiveBoosts
     /\ t - s.lastProgressiveBoostTime >= ProgressiveIntervalMs
  THEN [s EXCEPT !.progressiveBoostCount = @ + 1,
                 !.progressiveSpeedMultiplier = @ + 1,
                 !.lastProgressiveBoostTime = t]
  ELSE s

\* faulty variant: an increase does not restart the 10s clock
SpeedProgressKeepsClock(s, t) ==
  IF s.speedBoostLogged /\ s.progressiveBoostCount < MaxProgressiveBoosts
     /\ t - s.lastProgressiveBoostTime >= ProgressiveIntervalMs
  THEN [s EXCEPT !.progressiveBoostCount = @ + 1,
                 !.progressiveSpeedMultiplier = @ + 1]
  ELSE s

\* second part: one progressive increase per call at most
SpeedProgress(s, t) ==
  IF s.speedBoostLogged /\ s.progressiveBoostCount < MaxProgressiveBoosts
     /\ t - s.lastProgressiveBoostTime >= ProgressiveIntervalMs
  THEN [s EXCEPT !.progressiveBoostCount = @ + 1,
                 !.progressiveSpeedMultiplier = @ + 1,
                 !.lastProgressiveBoostTime = t]
  ELSE s

\* the SpeedManager state after calculateSpeedMultiplier(activePlayers) at time t
SpeedAfter(s, activePlayers, t) == SpeedProgress(SpeedActivation(s, activePlayers, t), t)

\* the value calculateSpeedMultiplier(activePlayers) returns at time t
CalculateSpeedMultiplier(s, activePlayers, t) ==
  BaseSpeedMultiplier(activePlayers)
    * SpeedAfter(s, activePlayers, t).progressiveSpeedMultiplier

\* History of the boost, kept for the properties: since is the time of the
\* call that activated the boost, late tells whether some call since then
\* applied an increase more than 10000ms after the previous one.
NoBoost == [since |-> 0, late |-> FALSE]

BoostHistory(h, s, activePlayers, t) ==
  LET a == SpeedActivation(s, activePlayers, t)
      p == SpeedProgress(a, t)
  IN  IF ~s.speedBoostLogged /\ a.speedBoostLogged
      THEN [since |-> t, late |-> FALSE]
      ELSE IF /\ p.progressiveBoostCount > a.progressiveBoostCount
              /\ t - a.lastProgressiveBoostTime > ProgressiveIntervalMs
           THEN [h EXCEPT !.late = TRUE]
           ELSE h

----------------------------------------------------------------------------
(* GameStateManager *)

\* the fields after construction; created: the texts of initializeUI exist
GsmInit ==
  [gameStartTime      |-> 0,
   gracePeriodLogged  |-> FALSE,
   fightMessageLogged |-> FALSE,
   winnerAnnounced    |-> FALSE,
   winnerAnnounceTime |-> 0,
   created            |-> FALSE,
   graceVisible       |-> FALSE,
   fightVisible       |-> FALSE,
   winnerVisible      |-> FALSE,
   winnerText         |-> <<>>,
   scoreText          |-> <<>>]

\* The score text is the sequence of its lines; a line is a record of its
\* indicator ("+", "-", or "" when the line has none), name and score.  The
\* text "No players loaded" is the one line without a name.
NoPlayersLoaded == << [indicator |-> "", name |-> <<>>, score |-> 0] >>

\* grace text visible, fight and winner texts hidden; the score text is
\* built from the score map, still empty when create() calls initializeUI
InitializeUI(g) ==
  [g EXCEPT !.created = TRUE, !.graceVisible = TRUE, !.fightVisible = FALSE,
            !.winnerVisible = FALSE, !.winnerText = <<>>,
            !.scoreText = NoPlayersLoaded]

SetGameStartTime(g, t) == [g EXCEPT !.gameStartTime = t]

\* faulty variant: the round start time is not reset
ResetGameStateKeepsStart(g, t) ==
  [g EXCEPT !.gracePeriodLogged = FALSE, !.fightMessageLogged = FALSE,
            !.winnerAnnounced = FALSE]

ResetGameState(g, t) ==
  [g EXCEPT !.gameStartTime = t, !.gracePeriodLogged = FALSE,
            !.fightMessageLogged = FALSE, !.winnerAnnounced = FALSE]

\* faulty variant: the boundary instant still counts as grace
IsGracePeriodActiveInclusive(g, t) == t - g.gameStartTime <= GracePeriodMs

IsGracePeriodActive(g, t) == t - g.gameStartTime < GracePeriodMs

\* faulty variant: the message is still shown 1000ms after the end of grace
ShowFightMessageInclusive(g, t) ==
  LET timeSinceGraceEnd == (t - g.gameStartTime) - GracePeriodMs
  IN  ~IsGracePeriodActive(g, t) /\ timeSinceGraceEnd <= FightMessageMs

\* fight message shown: grace over and less than 1000ms after its end
ShowFightMessage(g, t) ==
  LET timeSinceGraceEnd == (t - g.gameStartTime) - GracePeriodMs
  IN  ~IsGracePeriodActive(g, t) /\ timeSinceGraceEnd < FightMessageMs

\* updateGracePeriod: the texts exist once initializeUI has run
UpdateGracePeriod(g, t) ==
  IF g.created
  THEN [g EXCEPT !.graceVisible = IsGracePeriodActive(g, t),
                 !.fightVisible = ShowFightMessage(g, t),
                 !.fightMessageLogged =
                    IF ShowFightMessage(g, t) /\ ~@ THEN TRUE
                    ELSE IF ~ShowFightMessage(g, t) /\ @ THEN FALSE
                    ELSE @]
  ELSE g

\* faulty variant: every request announces anew
AnnounceWinnerAgain(g, winnerName, t) ==
  [g EXCEPT !.winnerText = winnerName, !.winnerVisible = TRUE,
            !.winnerAnnounced = TRUE, !.winnerAnnounceTime = t]

AnnounceWinner(g, winnerName, t) ==
  IF ~g.winnerAnnounced
  THEN [g EXCEPT !.winnerText = winnerName, !.winnerVisible = TRUE,
                 !.winnerAnnounced = TRUE, !.winnerAnnounceTime = t]
  ELSE g

\* faulty variant: the wait since the announcement is not checked
ShouldRespawnAfterWinnerNoWait(g, t) == g.winnerAnnounced

ShouldRespawnAfterWinner(g, t) ==
  IF ~g.winnerAnnounced THEN FALSE ELSE t - g.winnerAnnounceTime >= WinnerWaitMs

HideWinnerAnnouncement(g) == [g EXCEPT !.winnerVisible = FALSE, !.winnerAnnounced = FALSE]

\* faulty variant: the announcement is forgotten
IsWinnerAnnouncedNever(g) == FALSE

IsWinnerAnnounced(g) == g.winnerAnnounced

\* faulty variant: the map is rebuilt with the winner's entry alone
UpdatePlayerScoreOnly(sc, playerName, points) ==
  LET currentScore == IF playerName \in DOMAIN sc THEN sc[playerName] ELSE 0
  IN  [n \in {playerName} |-> currentScore + points]

\* faulty variant: the points are counted twice
UpdatePlayerScoreTwice(sc, playerName, points) ==
  LET currentScore == IF playerName \in DOMAIN sc THEN sc[playerName] ELSE 0
  IN  [n \in DOMAIN sc \cup {playerName} |->
         IF n = playerName THEN currentScore + 2 * points ELSE sc[n]]

\* scores.set(name, (scores.get(name) ?? 0) + points)
UpdatePlayerScore(sc, playerName, points) ==
  LET currentScore == IF playerName \in DOMAIN sc THEN sc[playerName] ELSE 0
  IN  [n \in DOMAIN sc \cup {playerName} |->
         IF n = playerName THEN currentScore + points ELSE sc[n]]

\* Array.from(scores.entries()): the entries in insertion order, which is
\* the order of the names given to initializeScores
ScoreEntries(sc, order) ==
  LET InMap(n) == n \in DOMAIN sc
      keys == SelectSeq(order, InMap)
  IN  [i \in 1 .. Len(keys) |-> [name |-> keys[i], score |-> sc[keys[i]]]]

RECURSIVE InsertByScore(_, _)
\* e placed behind every entry whose score is not lower
InsertByScore(sorted, e) ==
  IF sorted = <<>> THEN <<e>>
  ELSE IF Head(sorted).score >= e.score
       THEN <<Head(sorted)>> \o InsertByScore(Tail(sorted), e)
       ELSE <<e>> \o sorted

RECURSIVE SortByScore(_)
\* entries.sort(([, scoreA], [, scoreB]) => scoreB - scoreA), a stable sort
SortByScore(entries) ==
  IF entries = <<>> THEN <<>>
  ELSE InsertByScore(SortByScore(SubSeq(entries, 1, Len(entries) - 1)),
                     entries[Len(entries)])

\* faulty variant: the first entries of the map, unsorted
TopEntriesUnsorted(entries) ==
  SubSeq(entries, 1, IF Len(entries) < ScoreLines THEN Len(entries) ELSE ScoreLines)

\* .sort(...).slice(0, 8)
TopEntries(entries) ==
  LET sorted == SortByScore(entries)
  IN  SubSeq(sorted, 1, IF Len(sorted) < ScoreLines THEN Len(sorted) ELSE ScoreLines)

\* getScoreDisplayText: lines "name: score"
GetScoreDisplayText(sc, order) ==
  IF DOMAIN sc = {} THEN NoPlayersLoaded
  ELSE LET top == TopEntries(ScoreEntries(sc, order))
       IN  [i \in 1 .. Len(top) |->
              [indicator |-> "", name |-> top[i].name, score |-> top[i].score]]

\* the end of updatePlayerScore: the text, if it exists, shows the new scores
ShowScores(g, sc, order) ==
  IF g.created THEN [g EXCEPT !.scoreText = GetScoreDisplayText(sc, order)] ELSE g

\* updateScoreDisplay(activePlayers): lines "+ name: score" / "- name: score"
UpdateScoreDisplay(g, sc, order, activePlayers) ==
  IF ~g.created THEN g
  ELSE IF DOMAIN sc = {} THEN [g EXCEPT !.scoreText = NoPlayersLoaded]
  ELSE LET top == TopEntries(ScoreEntries(sc, order))
       IN  [g EXCEPT !.scoreText =
              [i \in 1 .. Len(top) |->
                 [indicator |-> IF top[i].name \in activePlayers THEN "+" ELSE "-",
                  name |-> top[i].name, score |-> top[i].score]]]

RECURSIVE SeqToSet(_)
SeqToSet(q) == IF q = <<>> THEN {} ELSE {Head(q)} \cup SeqToSet(Tail(q))

InitializeScores(playerNames) == [n \in SeqToSet(playerNames) |-> 0]

----------------------------------------------------------------------------
(* CollisionManager *)

Abs(v) == IF v < 0 THEN -v ELSE v

\* -v * num/den
Bounce(v, num, den) == IF v < 0 THEN (Abs(v) * num) \div den ELSE -((v * num) \div den)

\* top edge; every player shows the same sprite, PlayerHeight tall
PlayerHeight == 32
Top(p) == p.y - PlayerHeight \div 2

\* faulty variant: a difference of exactly the threshold already stomps
DetermineCollisionWinnerInclusive(player1, player2) ==
  IF Top(player1) <= Top(player2) - VerticalThreshold THEN 1
  ELSE IF Top(player2) <= Top(player1) - VerticalThreshold THEN 2
  ELSE 0

\* faulty variant: the first argument wins whenever the heights differ enough
DetermineCollisionWinnerFirst(player1, player2) ==
  IF Top(player1) < Top(player2) - VerticalThreshold THEN 1
  ELSE IF Top(player2) < Top(player1) - VerticalThreshold THEN 1
  ELSE 0

\* determineCollisionWinner: 1 or 2 = the argument that wins, 0 = side collision
DetermineCollisionWinner(player1, player2) ==
  IF Top(player1) < Top(player2) - VerticalThreshold THEN 1
  ELSE IF Top(player2) < Top(player1) - VerticalThreshold THEN 2
  ELSE 0

\* faulty variant: the objects are not examined
PassesGuardsAlways(player1, player2) == TRUE

\* the guards of handlePlayerCollision: both bodies exist, both names are set
PassesGuards(player1, player2) ==
  /\ player1.body /\ player2.body
  /\ player1.playerName # <<>> /\ player2.playerName # <<>>

\* faulty variant: the cooldown window is empty
InCooldownNever(player1, currentTime) == currentTime - player1.lastCollision < 0

\* faulty variant: a contact at the very instant of the last one is processed
InCooldownLater(player1, currentTime) ==
  /\ 0 < currentTime - player1.lastCollision
  /\ currentTime - player1.lastCollision < CollisionCooldownMs

InCooldown(player1, currentTime) ==
  currentTime - player1.lastCollision < CollisionCooldownMs

\* faulty variant: the time of the contact is not recorded
SetLastCollisionUnset(p, currentTime) == p

\* player.setData("lastCollision", currentTime)
SetLastCollision(p, currentTime) == [p EXCEPT !.lastCollision = currentTime]

HandleGracePeriodCollision(p) == [p EXCEPT !.vx = Bounce(@, 4, 5)]

\* faulty variant: the side bounce damps like the grace bounce
HandleSideCollisionDamped(p) == [p EXCEPT !.vx = Bounce(@, 4, 5)]

HandleSideCollision(p) == [p EXCEPT !.vx = Bounce(@, 6, 5)]

\* faulty variant: the grace flag is not consulted
CollisionKindNoGrace(player1, player2, grace, currentTime) ==
  IF currentTime - player1.lastCollision < CollisionCooldownMs THEN "cooldown"
  ELSE IF Top(player1) < Top(player2) - VerticalThreshold
          \/ Top(player2) < Top(player1) - VerticalThreshold THEN "stomp"
  ELSE "side"

\* what handlePlayerCollision does with a contact that passed its guards
CollisionKind(player1, player2, grace, currentTime) ==
  IF InCooldown(player1, currentTime) THEN "cooldown"
  ELSE IF grace THEN "grace"
  ELSE IF DetermineCollisionWinner(player1, player2) # 0 THEN "stomp"
  ELSE "side"

----------------------------------------------------------------------------
(* PlayerManager: per-tick movement *)

\* Phaser's loop time handed to update(time, delta); the page loaded at Epoch
GameTime(t) == t - Epoch

\* faulty variant: the flap comes as soon as the interval has passed
FlapDueInclusive(p, time) == time - p.lastFlapTime >= p.nextFlapTime

\* time - lastFlapTime > nextFlapTime
FlapDue(p, time) == time - p.lastFlapTime > p.nextFlapTime

\* faulty variant: the horizontal velocity is left as the physics has it
HandlePlayerMovementKeepsVelocity(p, time, speedMultiplier, activePlayers, rnd) ==
  LET directionChangeInterval ==
        IF activePlayers < 8 THEN Between(2000, 5000, rnd.r) ELSE Between(3000, 8000, rnd.r)
      p1 == IF time - p.lastDirectionChange > p.nextDirectionChange
            THEN [p EXCEPT !.direction = rnd.d,
                           !.horizontalSpeed = Between(50, 100, rnd.r),
                           !.lastDirectionChange = time,
                           !.nextDirectionChange = directionChangeInterval]
            ELSE p
      flapInterval ==
        IF activePlayers < 8 THEN Between(1000, 2500, rnd.r) ELSE Between(1500, 4000, rnd.r)
      flapForce == IF activePlayers < 8 THEN -180 ELSE -150
  IN  IF FlapDue(p, time)
      THEN [p1 EXCEPT !.vy = flapForce * VelDen,
                      !.lastFlapTime = time, !.nextFlapTime = flapInterval]
      ELSE p1

HandlePlayerMovement(p, time, speedMultiplier, activePlayers, rnd) ==
  LET velX == p.horizontalSpeed * speedMultiplier * p.direction * (VelDen \div MultDen)
      directionChangeInterval ==
        IF activePlayers < 8 THEN Between(2000, 5000, rnd.r) ELSE Between(3000, 8000, rnd.r)
      p1 == IF time - p.lastDirectionChange > p.nextDirectionChange
            THEN [p EXCEPT !.direction = rnd.d,
                           !.horizontalSpeed = Between(50, 100, rnd.r),
                           !.lastDirectionChange = time,
                           !.nextDirectionChange = directionChangeInterval]
            ELSE p
      flapInterval ==
        IF activePlayers < 8 THEN Between(1000, 2500, rnd.r) ELSE Between(1500, 4000, rnd.r)
      flapForce == IF activePlayers < 8 THEN -180 ELSE -150
  IN  IF FlapDue(p, time)
      THEN [p1 EXCEPT !.vx = velX, !.vy = flapForce * VelDen,
                      !.lastFlapTime = time, !.nextFlapTime = flapInterval]
      ELSE [p1 EXCEPT !.vx = velX]

\* faulty variant: a player exactly 40px outside an edge is wrapped as well
HandleScreenWrappingInclusive(p, cam) ==
  LET leftBound == cam.scrollX
      rightBound == cam.scrollX + CameraWidth
      topBound == cam.scrollY
      bottomBound == cam.scrollY + CameraHeight
      x1 == IF p.x >= rightBound + HalfSpriteSize THEN leftBound - HalfSpriteSize
            ELSE IF p.x <= leftBound - HalfSpriteSize THEN rightBound + HalfSpriteSize
            ELSE p.x
      y1 == IF p.y >= bottomBound + HalfSpriteSize THEN topBound - HalfSpriteSize
            ELSE IF p.y <= topBound - HalfSpriteSize THEN bottomBound + HalfSpriteSize
            ELSE p.y
  IN  [p EXCEPT !.x = x1, !.y = y1]

\* faulty variant: the bounds do not follow the camera
HandleScreenWrappingUnscrolled(p, cam) ==
  LET rightBound == CameraWidth
      bottomBound == CameraHeight
      x1 == IF p.x > rightBound + HalfSpriteSize THEN -HalfSpriteSize
            ELSE IF p.x < -HalfSpriteSize THEN rightBound + HalfSpriteSize
            ELSE p.x
      y1 == IF p.y > bottomBound + HalfSpriteSize THEN -HalfSpriteSize
            ELSE IF p.y < -HalfSpriteSize THEN bottomBound + HalfSpriteSize
            ELSE p.y
  IN  [p EXCEPT !.x = x1, !.y = y1]

HandleScreenWrapping(p, cam) ==
  LET leftBound == cam.scrollX
      rightBound == cam.scrollX + CameraWidth
      topBound == cam.scrollY
      bottomBound == cam.scrollY + CameraHeight
      x1 == IF p.x > rightBound + HalfSpriteSize THEN leftBound - HalfSpriteSize
            ELSE IF p.x < leftBound - HalfSpriteSize THEN rightBound + HalfSpriteSize
            ELSE p.x
      y1 == IF p.y > bottomBound + HalfSpriteSize THEN topBound - HalfSpriteSize
            ELSE IF p.y < topBound - HalfSpriteSize THEN bottomBound + HalfSpriteSize
            ELSE p.y
  IN  [p EXCEPT !.x = x1, !.y = y1]

UpdatePlayerMovement(bs, time, speedMultiplier, cam, rnd) ==
  [i \in 1 .. Len(bs) |->
     HandleScreenWrapping(
       HandlePlayerMovement(bs[i], time, speedMultiplier, Len(bs), rnd), cam)]

----------------------------------------------------------------------------
(* RespawnManager *)

\* faulty variant: the callback announces the name it is given, "Winner"
ActualWinnerNameGiven(bs) == <<"W">>

\* the name the winner callback of Game.checkAndRespawnPlayers announces:
\* the first remaining player's, else the placeholder "Winner"
ActualWinnerName(bs) == IF Len(bs) > 0 THEN bs[1].playerName ELSE <<"W">>

\* faulty variant: a roster of one name counts as "more players available"
RespawnActionAnyRoster(activePlayers, totalAvailablePlayers, g, t) ==
  IF activePlayers <= 1 /\ totalAvailablePlayers >= 1
  THEN IF ~g.winnerAnnounced THEN "announce"
       ELSE IF t - g.winnerAnnounceTime >= WinnerWaitMs THEN "respawn"
       ELSE "wait"
  ELSE "none"

\* faulty variant: the round already ends with two players left
RespawnActionTwoLeft(activePlayers, totalAvailablePlayers, g, t) ==
  IF activePlayers <= 2 /\ totalAvailablePlayers > 1
  THEN IF ~g.winnerAnnounced THEN "announce"
       ELSE IF t - g.winnerAnnounceTime >= WinnerWaitMs THEN "respawn"
       ELSE "wait"
  ELSE "none"

\* what checkAndRespawnPlayers decides to do
RespawnAction(activePlayers, totalAvailablePlayers, g, t) ==
  IF activePlayers <= 1 /\ totalAvailablePlayers > 1
  THEN IF ~IsWinnerAnnounced(g) THEN "announce"
       ELSE IF ShouldRespawnAfterWinner(g, t) THEN "respawn"
       ELSE "wait"
  ELSE "none"

\* faulty variant: the loop stops one call early
PlayersToSpawnOneShort(totalAvailablePlayers, activePlayers) ==
  totalAvailablePlayers - activePlayers - 1

\* the number of spawnRandomPlayer calls of a respawn
PlayersToSpawn(totalAvailablePlayers, activePlayers) ==
  totalAvailablePlayers - activePlayers

\* the outcomes of Game.checkAndRespawnPlayers; firstPick: only the one in
\* which every pick of a respawn takes the first available name is followed
CheckAndRespawnPlayersPicking(g, bs, names, t, rnd, firstPick) ==
  LET activePlayers == GetActivePlayerCount(bs)
      totalAvailablePlayers == GetTotalAvailablePlayerCount(names)
      action == RespawnAction(activePlayers, totalAvailablePlayers, g, t)
  IN  CASE action = "announce" ->
             {[gsm |-> AnnounceWinner(g, ActualWinnerName(bs), t), boxes |-> bs,
               kind |-> action]}
        [] action = "respawn" ->
             {[gsm |-> ResetGameState(HideWinnerAnnouncement(g), t), boxes |-> b2,
               kind |-> action] :
                b2 \in IF firstPick
                       THEN SpawnLoopFirst(
                              names, bs,
                              PlayersToSpawn(totalAvailablePlayers, activePlayers), rnd)
                       ELSE SpawnLoop(
                              names, bs,
                              PlayersToSpawn(totalAvailablePlayers, activePlayers), rnd)}
        [] OTHER -> {[gsm |-> g, boxes |-> bs, kind |-> action]}

\* every outcome of Game.checkAndRespawnPlayers
CheckAndRespawnPlayers(g, bs, names, t, rnd) ==
  CheckAndRespawnPlayersPicking(g, bs, names, t, rnd, FALSE)

----------------------------------------------------------------------------
(* CommentDataManager *)

\* the authors' display names, trimmed, without empty ones, each once
ExtractNamesFromResponse(authors) == AddCleanNames(<<>>, authors)

\* faulty variant: a failed request is not caught
FetchYouTubeNamesNoCatch(res) == ExtractNamesFromResponse(res.names)

\* [] when getCommentThreads or the extraction throws
FetchYouTubeNames(res) ==
  IF res.ok THEN ExtractNamesFromResponse(res.names) ELSE <<>>

----------------------------------------------------------------------------
(* Game.create *)

NoEvent == [type |-> "none", kind |-> "none", arg |-> 0]

Init ==
  /\ pc = "constructed"
  /\ frame = "updated"
  /\ now = Epoch
  /\ youtubeNames = <<>>
  /\ boxes = <<>>
  /\ scores = InitializeScores(<<>>)
  /\ gsm = GsmInit
  /\ speed = SpeedInit
  /\ camera = [scrollX |-> 0, scrollY |-> 0]
  /\ recent = {}
  /\ ev = NoEvent
  /\ boostHist = NoBoost

\* the part of create() after the names are known
StartRound(names, rnd) ==
  /\ pc' = "running"
  /\ youtubeNames' = names
  /\ boxes' = CreatePlayers(names, rnd)
  /\ scores' = InitializeScores(GetPlayerNames(names))
  /\ gsm' = SetGameStartTime(InitializeUI(gsm), now)
  /\ UNCHANGED <<frame, now, speed, camera, recent, boostHist>>

\* create({commentsData}): the names come with the scene data
CreateWithData(names, rnd) ==
  /\ pc = "constructed"
  /\ StartRound(ExtractNamesFromResponse(names), rnd)
  /\ ev' = [type |-> "create", kind |-> "round", arg |-> 0]

\* faulty variant: the rest of create() runs without awaiting the names
CreateFetchNoAwait ==
  /\ pc = "constructed"
  /\ pc' = "fetching"
  /\ \E rnd \in MatchRnds : boxes' = CreatePlayers(youtubeNames, rnd)
  /\ scores' = InitializeScores(GetPlayerNames(youtubeNames))
  /\ gsm' = SetGameStartTime(InitializeUI(gsm), now)
  /\ ev' = [type |-> "create", kind |-> "fetch", arg |-> 0]
  /\ UNCHANGED <<frame, now, youtubeNames, speed, camera, recent, boostHist>>

\* create() without data: the scene waits for fetchYouTubeNames
CreateFetch ==
  /\ pc = "constructed"
  /\ pc' = "fetching"
  /\ ev' = [type |-> "create", kind |-> "fetch", arg |-> 0]
  /\ UNCHANGED <<frame, now, youtubeNames, boxes, scores, gsm, speed, camera, recent,
                 boostHist>>

\* fetchYouTubeNames settles; res.ok tells whether getCommentThreads
\* delivered the authors res.names or threw
FetchDone(res, rnd) ==
  /\ pc = "fetching"
  /\ frame = "updated"
  /\ StartRound(FetchYouTubeNames(res), rnd)
  /\ ev' = [type |-> "create", kind |-> IF res.ok THEN "round" ELSE "fetchFailed", arg |-> 0]

----------------------------------------------------------------------------
(* The frame loop: the physics step moves the bodies and reports contacts  *)
(* to the collider callback, then Game.update runs.                        *)

\* a new frame starts dt ms later; the physics step has moved the players
AdvanceTime(dt, ys) ==
  /\ pc # "constructed"
  /\ frame = "updated"
  /\ (now + dt) - Epoch <= MaxElapsed
  /\ now' = now + dt
  /\ frame' = "step"
  /\ boxes' = [i \in 1 .. Len(boxes) |-> [boxes[i] EXCEPT !.y = ys[i]]]
  /\ recent' = {c \in recent : (now + dt) - c.at < CollisionCooldownMs}
  /\ ev' = [type |-> "time", kind |-> "frame", arg |-> 0]
  /\ UNCHANGED <<pc, youtubeNames, scores, gsm, speed, camera, boostHist>>

\* the collider callback: handlePlayerCollision(boxes[i], boxes[j], grace, ...)
HandlePlayerCollision(i, j) ==
  LET player1 == boxes[i]
      player2 == boxes[j]
      currentTime == now
      kind == CollisionKind(player1, player2, IsGracePeriodActive(gsm, now), currentTime)
      \* both cooldowns set
      c1 == SetLastCollision(player1, currentTime)
      c2 == SetLastCollision(player2, currentTime)
      result == DetermineCollisionWinner(player1, player2)
      winnerName == IF result = 1 THEN player1.playerName ELSE player2.playerName
      loser == IF result = 1 THEN j ELSE i
      \* winnerBox = result.winner === player1Name ? player1 : player2
      winnerBox == IF winnerName = player1.playerName THEN i ELSE j
      marked == [boxes EXCEPT ![i] = c1, ![j] = c2]
      met == [pair |-> {player1.playerName, player2.playerName}, at |-> currentTime]
  IN  /\ ev' = [type |-> "contact", kind |-> kind,
                arg |-> IF kind = "stomp" THEN result ELSE 0]
      /\ CASE kind = "cooldown" -> UNCHANGED <<boxes, scores, recent>>
           [] kind = "grace" ->
                /\ boxes' = [boxes EXCEPT ![i] = HandleGracePeriodCollision(c1),
                                          ![j] = HandleGracePeriodCollision(c2)]
                /\ recent' = recent \cup {met}
                /\ UNCHANGED scores
           [] kind = "stomp" ->
                \* onPlayerEliminated: score the winner, remove the loser
                /\ scores' = UpdatePlayerScore(scores, winnerName, 1)
                /\ boxes' = RemovePlayer(
                              [marked EXCEPT ![winnerBox].vy = -StompBoost * VelDen], loser)
                /\ recent' = {c \in recent : boxes[loser].playerName \notin c.pair}
           [] kind = "side" ->
                /\ boxes' = [boxes EXCEPT ![i] = HandleSideCollision(c1),
                                          ![j] = HandleSideCollision(c2)]
                /\ recent' = recent \cup {met}
                /\ UNCHANGED scores

Contact(i, j) ==
  /\ pc = "running"
  /\ frame = "step"
  /\ i \in 1 .. Len(boxes)
  /\ j \in 1 .. Len(boxes)
  /\ i # j
  /\ HandlePlayerCollision(i, j)
  /\ gsm' = IF scores' # scores
            THEN ShowScores(gsm, scores', GetPlayerNames(youtubeNames))
            ELSE gsm
  /\ UNCHANGED <<pc, frame, now, youtubeNames, speed, camera, boostHist>>

\* Game.update(time, delta); cam is where cameraController.update(delta)
\* leaves the camera, which depends on the cursor keys held; firstPick as
\* in CheckAndRespawnPlayersPicking
UpdatePicking(rnd, cam, firstPick) ==
  LET gsm1 == UpdateGracePeriod(gsm, now)
      activePlayers == GetActivePlayerCount(boxes)
      speedMultiplier == CalculateSpeedMultiplier(speed, activePlayers, now)
      moved == UpdatePlayerMovement(boxes, GameTime(now), speedMultiplier, cam, rnd)
      gsm2 == UpdateScoreDisplay(gsm1, scores, GetPlayerNames(youtubeNames),
                                 ActiveNames(moved))
  IN  /\ pc # "constructed"
      /\ frame = "step"
      /\ frame' = "updated"
      /\ speed' = SpeedAfter(speed, activePlayers, now)
      /\ boostHist' = BoostHistory(boostHist, speed, activePlayers, now)
      /\ \E o \in CheckAndRespawnPlayersPicking(gsm2, moved, youtubeNames, now, rnd,
                                               firstPick) :
           /\ gsm' = o.gsm
           /\ boxes' = o.boxes
           /\ ev' = [type |-> "update", kind |-> o.kind, arg |-> 0]
      /\ camera' = cam
      /\ UNCHANGED <<pc, now, youtubeNames, scores, recent>>

\* Game.update(time, delta), every outcome of its random picks
UpdateWithCamera(rnd, cam) == UpdatePicking(rnd, cam, FALSE)

\* Game.update(time, delta) with no cursor key held
Update(rnd) == UpdateWithCamera(rnd, camera)

----------------------------------------------------------------------------
(* The match specification *)

Next ==
  \/ \E names \in NameLists, rnd \in MatchRnds : CreateWithData(names, rnd)
  \/ CreateFetch
  \/ \E res \in FetchResults, rnd \in MatchRnds : FetchDone(res, rnd)
  \/ \E dt \in Dts, ys \in Formations(Len(boxes)) : AdvanceTime(dt, ys)
  \/ \E i, j \in 1 .. MaxPlayers : Contact(i, j)
  \/ \E rnd \in MatchRnds : Update(rnd)

Spec == Init /\ [][Next]_vars

----------------------------------------------------------------------------
(* The duel specification: two names, frames 250ms apart, so that contacts *)
(* of one pair fall inside and outside the cooldown of an earlier frame.   *)

DuelDts == {250, 3000}

DuelLists == { << <<"B">> >> }

DuelNext ==
  \/ \E names \in DuelLists, rnd \in MatchRnds : CreateWithData(names, rnd)
  \/ \E dt \in DuelDts, ys \in [1 .. Len(boxes) -> Ys] : AdvanceTime(dt, ys)
  \/ \E i, j \in 1 .. MaxPlayers : Contact(i, j)
  \/ \E rnd \in MatchRnds : Update(rnd)

DuelSpec == Init /\ [][DuelNext]_vars

----------------------------------------------------------------------------
(* The round specification: the match of a roster of two or three names    *)
(* under the scheduling of the game loop, which steps the physics and then *)
(* calls Game.update on every animation frame for as long as the page      *)
(* lives.  Frames are followed up to MaxElapsed and, beyond it, for as     *)
(* long as an announced winner waits for its respawn.                      *)

RoundLists == { << <<"B">> >>, << <<"B">>, <<"C">> >> }

\* time between two frames
RoundDts == {1000, 3000}

\* a frame that starts beyond MaxElapsed while a winner is announced
AdvanceTimeAnnounced(dt, ys) ==
  /\ pc # "constructed"
  /\ frame = "updated"
  /\ (now + dt) - Epoch > MaxElapsed
  /\ IsWinnerAnnounced(gsm)
  /\ now' = now + dt
  /\ frame' = "step"
  /\ boxes' = [i \in 1 .. Len(boxes) |-> [boxes[i] EXCEPT !.y = ys[i]]]
  /\ recent' = {c \in recent : (now + dt) - c.at < CollisionCooldownMs}
  /\ ev' = [type |-> "time", kind |-> "frame", arg |-> 0]
  /\ UNCHANGED <<pc, youtubeNames, scores, gsm, speed, camera, boostHist>>

\* the physics step of a frame
RoundStep ==
  \E dt \in RoundDts, ys \in Formations(Len(boxes)) :
    AdvanceTime(dt, ys) \/ AdvanceTimeAnnounced(dt, ys)

\* the scene's update of a frame
RoundUpdate == \E rnd \in MatchRnds : Update(rnd)

RoundNext ==
  \/ \E names \in RoundLists, rnd \in MatchRnds : CreateWithData(names, rnd)
  \/ RoundStep
  \/ \E i, j \in 1 .. MaxPlayers : Contact(i, j)
  \/ RoundUpdate

\* what the scene's update does to the frame loop; within RoundNext the
\* steps that do it are the steps of RoundUpdate, which is enabled exactly
\* when a physics step has been made
FrameUpdated == pc # "constructed" /\ frame = "step" /\ frame' = "updated"

\* the game loop neither stops stepping nor skips the update of a frame
RoundSpec ==
  Init /\ [][RoundNext]_vars /\ WF_vars(RoundStep) /\ WF_frame(FrameUpdated)

----------------------------------------------------------------------------
(* The series specification: the match of a roster of two or three names   *)
(* followed into its second round: long enough for the respawn of either   *)
(* roster and for the second announcement of the smaller one.              *)

MaxSeriesElapsed == 9000

\* time between two frames
SeriesDts == {1500, 3000}

\* a new frame starts dt ms later; the physics step has moved the players
SeriesStep(dt, ys) ==
  /\ pc # "constructed"
  /\ frame = "updated"
  /\ (now + dt) - Epoch <= MaxSeriesElapsed
  /\ now' = now + dt
  /\ frame' = "step"
  /\ boxes' = [i \in 1 .. Len(boxes) |-> [boxes[i] EXCEPT !.y = ys[i]]]
  /\ recent' = {c \in recent : (now + dt) - c.at < CollisionCooldownMs}
  /\ ev' = [type |-> "time", kind |-> "frame", arg |-> 0]
  /\ UNCHANGED <<pc, youtubeNames, scores, gsm, speed, camera, boostHist>>

SeriesNext ==
  \/ \E names \in RoundLists, rnd \in MatchRnds : CreateWithData(names, rnd)
  \/ \E dt \in SeriesDts, ys \in Formations(Len(boxes)) : SeriesStep(dt, ys)
  \/ \E i, j \in 1 .. MaxPlayers : Contact(i, j)
  \/ \E rnd \in MatchRnds : Update(rnd)

SeriesSpec == Init /\ [][SeriesNext]_vars

----------------------------------------------------------------------------
(* The crowd specification: the match of a roster of twelve or fourteen    *)
(* names.  The physics step leaves the players on a ladder, each 11px      *)
(* below the one before it, and the only contact reported is that of the   *)
(* second player of the group running into the first.                      *)

CrowdLists ==
  { << <<"B">>, <<"C">>, <<"D">>, <<"F">>, <<"G">>, <<"H">>, <<"I">>, <<"J">>, <<"K">>,
       <<"L">>, <<"M">> >>,
    << <<"B">>, <<"C">>, <<"D">>, <<"F">>, <<"G">>, <<"H">>, <<"I">>, <<"J">>, <<"K">>,
       <<"L">>, <<"M">>, <<"N">>, <<"O">> >> }

\* the heights of n players on the ladder
Ladder(n) == [i \in 1 .. n |-> 290 + 11 * i]

CrowdNext ==
  \/ \E names \in CrowdLists, rnd \in MatchRnds : CreateWithData(names, rnd)
  \/ \E dt \in RoundDts : AdvanceTime(dt, Ladder(Len(boxes)))
  \/ Contact(2, 1)
  \/ \E rnd \in MatchRnds : UpdatePicking(rnd, camera, TRUE)

CrowdSpec == Init /\ [][CrowdNext]_vars

----------------------------------------------------------------------------
(* The announcement specification: the match of a roster of two or three   *)
(* names in which, once a single player is left, announceWinner may be     *)
(* called at any moment and with any name, before and after the tick that  *)
(* calls it.                                                               *)

\* gameStateManager.announceWinner(winnerName)
AnnounceRequest(winnerName) ==
  /\ pc = "running"
  /\ GetActivePlayerCount(boxes) <= 1
  /\ GetTotalAvailablePlayerCount(youtubeNames) > 1
  /\ gsm' = AnnounceWinner(gsm, winnerName, now)
  /\ ev' = [type |-> "announce",
            kind |-> IF IsWinnerAnnounced(gsm) THEN "repeated" ELSE "first", arg |-> 0]
  /\ UNCHANGED <<pc, frame, now, youtubeNames, boxes, scores, speed, camera, recent,
                 boostHist>>

AnnounceNext ==
  \/ \E names \in RoundLists, rnd \in MatchRnds : CreateWithData(names, rnd)
  \/ \E dt \in RoundDts, ys \in Formations(Len(boxes)) : AdvanceTime(dt, ys)
  \/ \E i, j \in 1 .. MaxPlayers : Contact(i, j)
  \/ \E winnerName \in SeqToSet(GetPlayerNames(youtubeNames)) \cup {<<"W">>} :
       AnnounceRequest(winnerName)
  \/ \E rnd \in MatchRnds : Update(rnd)

AnnounceSpec == Init /\ [][AnnounceNext]_vars

----------------------------------------------------------------------------
(* The stale-contact specification: the match of a roster of three names   *)
(* in which the collider may also report, during a physics step, a pair    *)
(* made of an active player and a player object destroyed earlier.         *)

StaleLists == { << <<"B">>, <<"C">> >> }

\* the collider callback called with the active player boxes[j] and a
\* destroyed player object at height y; first: the destroyed one is player1
StaleContact(y, j, first) ==
  LET gone == DestroyedPlayer(y)
      live == boxes[j]
      player1 == IF first THEN gone ELSE live
      player2 == IF first THEN live ELSE gone
      currentTime == now
      kind == CollisionKind(player1, player2, IsGracePeriodActive(gsm, now), currentTime)
      result == DetermineCollisionWinner(player1, player2)
      liveWins == (result = 1) = ~first
      marked == SetLastCollision(live, currentTime)
  IN  /\ pc = "running"
      /\ frame = "step"
      /\ Len(boxes) < GetTotalAvailablePlayerCount(youtubeNames)
      /\ j \in 1 .. Len(boxes)
      /\ IF ~PassesGuards(player1, player2)
         THEN /\ ev' = [type |-> "contact", kind |-> "stale", arg |-> 0]
              /\ UNCHANGED <<boxes, scores, gsm>>
         ELSE /\ ev' = [type |-> "contact", kind |-> kind, arg |-> 0]
              /\ CASE kind = "cooldown" -> UNCHANGED <<boxes, scores, gsm>>
                   [] kind = "grace" ->
                        /\ boxes' = [boxes EXCEPT ![j] = HandleGracePeriodCollision(marked)]
                        /\ UNCHANGED <<scores, gsm>>
                   [] kind = "side" ->
                        /\ boxes' = [boxes EXCEPT ![j] = HandleSideCollision(marked)]
                        /\ UNCHANGED <<scores, gsm>>
                   [] kind = "stomp" ->
                        /\ scores' = UpdatePlayerScore(
                                        scores, IF liveWins THEN live.playerName
                                                ELSE gone.playerName, 1)
                        /\ boxes' = IF liveWins
                                    THEN [boxes EXCEPT ![j] =
                                            [marked EXCEPT !.vy = -StompBoost * VelDen]]
                                    ELSE RemovePlayer(boxes, j)
                        /\ gsm' = ShowScores(gsm, scores', GetPlayerNames(youtubeNames))
      /\ UNCHANGED <<pc, frame, now, youtubeNames, speed, camera, recent, boostHist>>

StaleNext ==
  \/ \E names \in StaleLists, rnd \in MatchRnds : CreateWithData(names, rnd)
  \/ \E dt \in RoundDts, ys \in Formations(Len(boxes)) : AdvanceTime(dt, ys)
  \/ \E i, j \in 1 .. MaxPlayers : Contact(i, j)
  \/ \E y \in Ys, j \in 1 .. MaxPlayers, first \in BOOLEAN : StaleContact(y, j, first)
  \/ \E rnd \in MatchRnds : Update(rnd)

StaleSpec == Init /\ [][StaleNext]_vars

----------------------------------------------------------------------------
(* The spawn specification: a PlayerManager whose players were created for *)
(* a roster of one to four names, asked in any order to remove a player    *)
(* and to spawn a random one.                                              *)

SpawnLists == NameLists \cup { << <<"B">>, <<"C">>, <<"D">> >> }

\* the draws followed: the lowest and the highest
SpawnRnds == {[r |-> 0, d |-> 1], [r |-> RndDen - 1, d |-> -1]}

\* playerManager.spawnRandomPlayer()
SpawnRequest(rnd) ==
  /\ pc = "running"
  /\ boxes' \in SpawnRandomPlayer(youtubeNames, boxes, rnd)
  /\ ev' = [type |-> "spawn", kind |-> IF boxes' = boxes THEN "skipped" ELSE "spawned",
            arg |-> 0]
  /\ UNCHANGED <<pc, frame, now, youtubeNames, scores, gsm, speed, camera, recent,
                 boostHist>>

\* playerManager.removePlayer(boxes[i])
RemoveRequest(i) ==
  /\ pc = "running"
  /\ i \in 1 .. Len(boxes)
  /\ boxes' = RemovePlayer(boxes, i)
  /\ ev' = [type |-> "spawn", kind |-> "removed", arg |-> 0]
  /\ UNCHANGED <<pc, frame, now, youtubeNames, scores, gsm, speed, camera, recent,
                 boostHist>>

SpawnNext ==
  \/ \E names \in SpawnLists, rnd \in MatchRnds : CreateWithData(names, rnd)
  \/ \E rnd \in SpawnRnds : SpawnRequest(rnd)
  \/ \E i \in 1 .. MaxPlayers : RemoveRequest(i)

SpawnSpec == Init /\ [][SpawnNext]_vars

----------------------------------------------------------------------------
(* The movement specification: two or eight players that the physics step *)
(* carries together to any of a few points inside, on and beyond the edges *)
(* of the viewport, the first two of which may collide, under a camera     *)
(* that the cursor keys move.                                              *)

MoveLists ==
  { << <<"B">> >>,
    << <<"B">>, <<"C">>, <<"D">>, <<"F">>, <<"G">>, <<"H">>, <<"I">> >> }

MoveDts == {500}

\* camera positions: at the origin of the world, and scrolled
CameraScrolls == {[scrollX |-> 0, scrollY |-> 0], [scrollX |-> 100, scrollY |-> 50]}

\* the places the physics step may carry the players to
MovePoints ==
  { [x |-> CameraWidth \div 2, y |-> CameraHeight \div 2],
    [x |-> CameraWidth + HalfSpriteSize, y |-> CameraHeight + HalfSpriteSize],
    [x |-> CameraWidth + HalfSpriteSize + 1, y |-> CameraHeight + HalfSpriteSize + 1],
    [x |-> -HalfSpriteSize, y |-> -HalfSpriteSize],
    [x |-> -HalfSpriteSize - 1, y |-> -HalfSpriteSize - 1],
    [x |-> 100 - HalfSpriteSize - 1, y |-> 50 - HalfSpriteSize - 1] }

\* a new frame starts dt ms later; the physics step has carried the players
\* to the point pt
MoveStep(dt, pt) ==
  /\ pc = "running"
  /\ frame = "updated"
  /\ (now + dt) - Epoch <= MaxElapsed
  /\ now' = now + dt
  /\ frame' = "step"
  /\ boxes' = [i \in 1 .. Len(boxes) |-> [boxes[i] EXCEPT !.x = pt.x, !.y = pt.y]]
  /\ recent' = {c \in recent : (now + dt) - c.at < CollisionCooldownMs}
  /\ ev' = [type |-> "time", kind |-> "frame", arg |-> 0]
  /\ UNCHANGED <<pc, youtubeNames, scores, gsm, speed, camera, boostHist>>

MoveNext ==
  \/ \E names \in MoveLists, rnd \in SpawnRnds : CreateWithData(names, rnd)
  \/ \E dt \in MoveDts, pt \in MovePoints : MoveStep(dt, pt)
  \/ Contact(1, 2)
  \/ \E rnd \in SpawnRnds, cam \in CameraScrolls : UpdateWithCamera(rnd, cam)

MoveSpec == Init /\ [][MoveNext]_vars

----------------------------------------------------------------------------
(* The speed specification: calculateSpeedMultiplier called on a freshly   *)
(* constructed SpeedManager with any player count, at any pace.            *)

MaxSpeedElapsed == 100000

SpeedDts == {4000, 10000}

ActiveCounts == {1, 7, 8, 12}

\* one call speedManager.calculateSpeedMultiplier(activePlayers), dt ms after
\* the previous one
SpeedTick(activePlayers, dt) ==
  /\ pc = "constructed"
  /\ (now + dt) - Epoch <= MaxSpeedElapsed
  /\ now' = now + dt
  /\ speed' = SpeedAfter(speed, activePlayers, now')
  /\ boostHist' = BoostHistory(boostHist, speed, activePlayers, now')
  /\ ev' = [type |-> "speed", kind |-> "call",
            arg |-> CalculateSpeedMultiplier(speed, activePlayers, now')]
  /\ UNCHANGED <<pc, frame, youtubeNames, boxes, scores, gsm, camera, recent>>

SpeedNext == \E activePlayers \in ActiveCounts, dt \in SpeedDts : SpeedTick(activePlayers, dt)

SpeedSpec == Init /\ [][SpeedNext]_vars

----------------------------------------------------------------------------
(* The roster specification: a PlayerManager given any list of strings by  *)
(* setYouTubeNames, then asked to create its players.                      *)

MaxRawLen == 4

\* strings as a comment service may hold them: empty, blank, padded, the
\* guaranteed name itself, with a space inside
RawNames ==
  { <<>>, <<" ">>, <<"B">>, <<" ", "B", " ">>, <<"E">>, <<" ", "E">>, <<"C", " ", "D">> }

RawLists == UNION {[1 .. n -> RawNames] : n \in 0 .. MaxRawLen}

\* playerManager.setYouTubeNames(names)
SetYouTubeNames(names) ==
  /\ pc = "constructed"
  /\ pc' = "named"
  /\ youtubeNames' = names
  /\ ev' = [type |-> "roster", kind |-> "names", arg |-> 0]
  /\ UNCHANGED <<frame, now, boxes, scores, gsm, speed, camera, recent, boostHist>>

\* playerManager.createPlayers()
CreatePlayersNamed(rnd) ==
  /\ pc = "named"
  /\ pc' = "created"
  /\ boxes' = CreatePlayers(youtubeNames, rnd)
  /\ ev' = [type |-> "roster", kind |-> "players", arg |-> 0]
  /\ UNCHANGED <<frame, now, youtubeNames, scores, gsm, speed, camera, recent, boostHist>>

RosterNext ==
  \/ \E names \in RawLists : SetYouTubeNames(names)
  \/ \E rnd \in MatchRnds : CreatePlayersNamed(rnd)

RosterSpec == Init /\ [][RosterNext]_vars

----------------------------------------------------------------------------
(* The score specification: a GameStateManager whose texts exist, holding  *)
(* any scores for a roster of up to nine names, asked to show them with    *)
(* any set of active players.                                              *)

MaxScore == 1

ScoreRosters ==
  { <<>>, << <<"B">>, <<"C">> >>,
    << <<"B">>, <<"C">>, <<"D">>, <<"F">>, <<"G">>, <<"H">>, <<"I">>, <<"J">> >> }

ActiveSets ==
  { {}, {<<"B">>, <<"D">>, <<"J">>},
    {ElodineCodes, <<"B">>, <<"C">>, <<"D">>, <<"F">>, <<"G">>, <<"H">>, <<"I">>, <<"J">>} }

ScoreInit ==
  /\ pc = "running"
  /\ frame = "updated"
  /\ now = Epoch
  /\ youtubeNames \in ScoreRosters
  /\ boxes = <<>>
  /\ scores \in [SeqToSet(GetPlayerNames(youtubeNames)) -> 0 .. MaxScore]
  /\ gsm = SetGameStartTime(InitializeUI(GsmInit), Epoch)
  /\ speed = SpeedInit
  /\ camera = [scrollX |-> 0, scrollY |-> 0]
  /\ recent = {}
  /\ ev = NoEvent
  /\ boostHist = NoBoost

\* gameStateManager.updateScoreDisplay(activePlayers)
ScoreTick(activePlayers) ==
  /\ gsm' = UpdateScoreDisplay(gsm, scores, GetPlayerNames(youtubeNames), activePlayers)
  /\ ev' = [type |-> "score", kind |-> "display", arg |-> 0]
  /\ UNCHANGED <<pc, frame, now, youtubeNames, boxes, scores, speed, camera, recent,
                 boostHist>>

ScoreNext == \E activePlayers \in ActiveSets : ScoreTick(activePlayers)

ScoreSpec == ScoreInit /\ [][ScoreNext]_vars

----------------------------------------------------------------------------
(* Properties *)

RosterSize == GetTotalAvailablePlayerCount(youtubeNames)

RosterNames == SeqToSet(GetPlayerNames(youtubeNames))

\* the step removed no player and changed no score
NoElimination ==
  /\ scores' = scores
  /\ Len(boxes') = Len(boxes)
  /\ \A k \in 1 .. Len(boxes) : boxes'[k].playerName = boxes[k].playerName

\* the step is a stomp in which the player at index a beat the one at index b
Wins(a, b) ==
  LET winner == boxes[a].playerName
      loser == boxes[b].playerName
  IN  /\ scores' = [scores EXCEPT ![winner] = @ + 1]
      /\ Len(boxes') = Len(boxes) - 1
      /\ winner \in ActiveNames(boxes')
      /\ loser \notin ActiveNames(boxes')

\* C1: while now - roundStartTime < 3000ms (after game start and after every
\* respawn) no contact removes a player from the active set or changes a
\* score, whatever the two players' heights are.
C1_NoEliminationInGrace ==
  [][(ev'.type = "contact" /\ now - gsm.gameStartTime < 3000) => NoElimination]_vars

\* a contact was processed during the grace period of a round started by a
\* respawn, between players more than the threshold apart
C1_Witness ==
  /\ ev.type = "contact" /\ ev.kind = "grace"
  /\ now - gsm.gameStartTime < 3000
  /\ \E n \in DOMAIN scores : scores[n] > 0
  /\ \E i, j \in 1 .. Len(boxes) :
       /\ boxes[i].lastCollision = now /\ boxes[j].lastCollision = now
       /\ boxes[i].y < boxes[j].y - 10

\* C2: a contact that is processed is treated as a grace contact exactly when
\* now - roundStartTime < 3000ms, and the grace banner computed by a tick
\* (one that does not restart the round) shows exactly then.
C2_GraceExactlyFirst3000 ==
  /\ (ev.type = "contact" /\ ev.kind # "cooldown")
       => (ev.kind = "grace" <=> now - gsm.gameStartTime < 3000)
  /\ (ev.type = "update" /\ gsm.created /\ ev.kind # "respawn")
       => (gsm.graceVisible <=> now - gsm.gameStartTime < 3000)

\* a contact is resolved outside the grace period at the very instant
\* now - roundStartTime = 3000ms
C2_Witness ==
  /\ ev.type = "contact" /\ ev.kind \in {"side", "stomp"}
  /\ now - gsm.gameStartTime = 3000

\* C3: the tick in which a respawn spawns players sets the round start time
\* to now and clears the winner-announced flag, so the grace period is
\* active again for survivor and respawned players alike.
C3_RespawnStartsGrace ==
  [][(ev'.type = "update" /\ Len(boxes') > Len(boxes))
       => /\ gsm'.gameStartTime = now'
          /\ ~gsm'.winnerAnnounced
          /\ now' - gsm'.gameStartTime < 3000]_vars

\* a respawn has just refilled a roster of three
C3_Witness ==
  /\ ev.type = "update" /\ ev.kind = "respawn"
  /\ Len(boxes) = 3
  /\ gsm.gameStartTime = now
  /\ ~gsm.winnerAnnounced

\* C4: with a roster of one name no winner is ever announced and no respawn
\* happens: the single player stays active and the flag stays false.
C4_SinglePlayerNeverEnds ==
  (pc = "running" /\ RosterSize = 1)
    => /\ ~gsm.winnerAnnounced
       /\ ~gsm.winnerVisible
       /\ ev.kind \notin {"announce", "respawn"}
       /\ Len(boxes) = 1
       /\ boxes[1].playerName = ElodineCodes

\* the single player is still alone after a tick long after the grace period
C4_Witness ==
  /\ pc = "running" /\ RosterSize = 1
  /\ ev.type = "update"
  /\ now - gsm.gameStartTime >= 6000

\* C5: a tick announces a winner exactly when at most one player is active,
\* the roster has more than one name and no winner is announced yet; the
\* announcement records winnerAnnounceTime = now and the name of the sole
\* remaining player.
C5_WinnerAnnouncedExactlyWhen ==
  [][ev'.type = "update" =>
       LET announcedNow == ~gsm.winnerAnnounced /\ gsm'.winnerAnnounced
       IN  /\ announcedNow
                <=> (Len(boxes) <= 1 /\ RosterSize > 1 /\ ~gsm.winnerAnnounced)
           /\ announcedNow
                => /\ gsm'.winnerAnnounceTime = now
                   /\ gsm'.winnerVisible
                   /\ Len(boxes) = 1
                   /\ gsm'.winnerText = boxes[1].playerName
           /\ ~announcedNow
                => /\ gsm'.winnerAnnounceTime = gsm.winnerAnnounceTime
                   /\ gsm'.winnerText = gsm.winnerText]_vars

\* the last player of a roster of three has just been announced
C5_Witness ==
  /\ ev.type = "update" /\ ev.kind = "announce"
  /\ RosterSize = 3
  /\ Len(boxes) = 1
  /\ gsm.winnerAnnounced /\ gsm.winnerAnnounceTime = now
  /\ gsm.winnerText = boxes[1].playerName

\* C6: shouldRespawnAfterWinner is true exactly when a winner is announced
\* and now - winnerAnnounceTime >= 3000ms, and a tick spawns players only in
\* a state where it is true.
C6_NoRespawnBeforeWait ==
  [][ev'.type = "update" =>
       /\ ShouldRespawnAfterWinner(gsm, now)
            <=> (gsm.winnerAnnounced /\ now - gsm.winnerAnnounceTime >= 3000)
       /\ Len(boxes') > Len(boxes)
            => (gsm.winnerAnnounced /\ now - gsm.winnerAnnounceTime >= 3000)]_vars

\* a respawn fired exactly 3000ms after the announcement
C6_Witness ==
  /\ ev.type = "update" /\ ev.kind = "respawn"
  /\ now - gsm.winnerAnnounceTime = 3000
  /\ Len(boxes) = RosterSize

\* C7: a respawn with roster size R and k active players creates exactly
\* R - k players, each with a roster name that is not active when it is
\* spawned, so that afterwards every roster name is active exactly once.
C7_RespawnRefillsRoster ==
  [][(ev'.type = "update" /\ gsm.winnerAnnounced /\ ~gsm'.winnerAnnounced) =>
       LET k == Len(boxes)
       IN  /\ Len(boxes') - k = RosterSize - k
           /\ \A i \in 1 .. k : boxes'[i].playerName = boxes[i].playerName
           /\ \A i \in k + 1 .. Len(boxes') :
                /\ boxes'[i].playerName \in RosterNames
                /\ \A m \in 1 .. i - 1 : boxes'[m].playerName # boxes'[i].playerName
           /\ \A n \in RosterNames :
                Cardinality({i \in 1 .. Len(boxes') : boxes'[i].playerName = n}) = 1]_vars

\* the survivor of a roster of three was joined by the two other names
C7_Witness ==
  /\ ev.type = "update" /\ ev.kind = "respawn"
  /\ RosterSize = 3
  /\ Len(boxes) = 3
  /\ {boxes[2].playerName, boxes[3].playerName} = RosterNames \ {boxes[1].playerName}

\* C8: a contact between two players whose top edges differ by at most 10px
\* (exactly 10px and 0px included) removes nobody and changes no score, in
\* either argument order; when it is processed it is a bounce.
C8_LevelContactNeverEliminates ==
  [][\A i, j \in 1 .. Len(boxes) :
       (i # j /\ Abs(Top(boxes[i]) - Top(boxes[j])) <= 10 /\ Contact(i, j))
         => (NoElimination /\ ev'.kind \in {"cooldown", "grace", "side"})]_vars

\* after the grace period a contact between players exactly 10px apart was
\* processed as a side bounce
C8_Witness ==
  /\ ev.type = "contact" /\ ev.kind = "side"
  /\ \E i, j \in 1 .. Len(boxes) :
       /\ boxes[i].lastCollision = now /\ boxes[j].lastCollision = now
       /\ boxes[i].y - boxes[j].y = 10

\* C9 as stated: with grace inactive, every contact between a player whose
\* top edge is at least 11px above the other's makes the upper player the
\* winner and removes the lower one, in either argument order.
C9_EveryContactStomps ==
  [][\A a, b \in 1 .. Len(boxes) :
       (/\ a # b
        /\ now - gsm.gameStartTime >= 3000
        /\ Top(boxes[a]) <= Top(boxes[b]) - 11
        /\ (Contact(a, b) \/ Contact(b, a)))
         => Wins(a, b)]_vars

\* C9 amended: the same for every contact that the cooldown does not ignore,
\* that is when the first argument's last processed contact is at least
\* 500ms old.
C9_ProcessedContactStomps ==
  [][\A a, b \in 1 .. Len(boxes) :
       (/\ a # b
        /\ now - gsm.gameStartTime >= 3000
        /\ Top(boxes[a]) <= Top(boxes[b]) - 11)
         => /\ (Contact(a, b) /\ now - boxes[a].lastCollision >= 500) => Wins(a, b)
            /\ (Contact(b, a) /\ now - boxes[b].lastCollision >= 500) => Wins(a, b)]_vars

\* a stomp was won by the player passed as second argument
C9_Witness ==
  /\ ev.type = "contact" /\ ev.kind = "stomp" /\ ev.arg = 2
  /\ now - gsm.gameStartTime >= 3000
  /\ \E n \in DOMAIN scores : scores[n] > 0 /\ n \in ActiveNames(boxes)

\* C10: once a contact between two players has been processed at t, a
\* further contact between the same two (in either order) at t' with
\* t' - t < 500ms changes no player field, no score and no membership.
C10_RepeatedContactIgnored ==
  [][\A i, j \in 1 .. Len(boxes) :
       (/\ i # j
        /\ \E c \in recent :
             /\ c.pair = {boxes[i].playerName, boxes[j].playerName}
             /\ now - c.at < 500
        /\ Contact(i, j))
         => (boxes' = boxes /\ scores' = scores /\ ev'.kind = "cooldown")]_vars

\* the two players of a contact processed in an earlier frame met again
\* less than 500ms later and were ignored
C10_Witness ==
  /\ ev.type = "contact" /\ ev.kind = "cooldown"
  /\ Len(boxes) = 2
  /\ \E c \in recent :
       /\ c.pair = ActiveNames(boxes)
       /\ 0 < now - c.at /\ now - c.at < 500
       /\ boxes[1].lastCollision = c.at /\ boxes[2].lastCollision = c.at

\* C11: a processed stomp adds 1 to the winner's score and to no other,
\* removes the loser, keeps the winner active with vertical velocity -150,
\* and leaves every other player as it was.
C11_StompEffect ==
  [][\A i, j \in 1 .. Len(boxes) :
       (Contact(i, j) /\ ev'.kind = "stomp") =>
         LET w == IF Top(boxes[i]) < Top(boxes[j]) THEN i ELSE j
             l == IF w = i THEN j ELSE i
             winner == boxes[w].playerName
             loser == boxes[l].playerName
         IN  /\ scores' = [scores EXCEPT ![winner] = @ + 1]
             /\ Len(boxes') = Len(boxes) - 1
             /\ loser \notin ActiveNames(boxes')
             /\ \E k \in 1 .. Len(boxes') :
                  /\ boxes'[k].playerName = winner
                  /\ boxes'[k].vy = -150 * VelDen
                  /\ boxes'[k].vx = boxes[w].vx
             /\ \A m \in 1 .. Len(boxes) :
                  m \notin {i, j} => \E k \in 1 .. Len(boxes') : boxes'[k] = boxes[m]]_vars

\* in a roster of three the highest player stomped one 21px below: it has
\* the only point and shares the arena with the third player
C11_Witness ==
  /\ ev.type = "contact" /\ ev.kind = "stomp"
  /\ RosterSize = 3
  /\ Len(boxes) = 2
  /\ \E k \in 1 .. 2 :
       /\ scores[boxes[k].playerName] = 1
       /\ boxes[k].vy = -150 * VelDen
       /\ boxes[k].y = 290
       /\ boxes[3 - k].y = 300
       /\ scores[boxes[3 - k].playerName] = 0
  /\ \A n \in RosterNames \ ActiveNames(boxes) : scores[n] = 0

\* C12: with 8 players or more calculateSpeedMultiplier returns exactly 1.0,
\* whatever calls came before and whatever time has passed.
C12_NormalSpeedAtEightOrMore ==
  [][\A activePlayers \in ActiveCounts, dt \in SpeedDts :
       (activePlayers >= 8 /\ SpeedTick(activePlayers, dt))
         => (ev'.arg = MultDen /\ speed'.progressiveSpeedMultiplier = 4)]_vars

\* a call with 8 players or more returned 1.0 and left the initial state,
\* more than 80s after a boost had been activated
C12_Witness ==
  /\ ev.type = "speed" /\ ev.arg = MultDen
  /\ speed = SpeedInit
  /\ boostHist.since > Epoch
  /\ now - boostHist.since > 80000

\* C13 as stated: while fewer than 8 players have been reported for t ms
\* since the call that activated the boost, the multiplier returned is
\* 1.5 x (1 + 0.25 x min(8, floor(t / 10000))).
C13_ClosedForm ==
  [][\A activePlayers \in ActiveCounts, dt \in SpeedDts :
       (activePlayers < 8 /\ SpeedTick(activePlayers, dt)) =>
         LET t == now' - boostHist'.since
         IN  ev'.arg = 12 * (4 + Min(8, t \div 10000))]_vars

\* C13 amended: the multiplier is 1.5 x (1 + 0.25 x n) for the number n of
\* increases applied so far; n never exceeds min(8, floor(t / 10000)) and
\* equals it as long as every increase was applied exactly 10000ms after the
\* previous one (or after the activation).
C13_BoostsCounted ==
  [][\A activePlayers \in ActiveCounts, dt \in SpeedDts :
       (activePlayers < 8 /\ SpeedTick(activePlayers, dt)) =>
         LET t == now' - boostHist'.since
             n == speed'.progressiveBoostCount
         IN  /\ speed'.speedBoostLogged
             /\ ev'.arg = 12 * (4 + n)
             /\ n <= Min(8, t \div 10000)
             /\ ~boostHist'.late => n = Min(8, t \div 10000)]_vars

\* 90s after the activation the eight increases, each applied on time, give
\* 1.5 x 3.0
C13_Witness ==
  /\ ev.type = "speed" /\ ev.arg = 12 * 12
  /\ speed.speedBoostLogged /\ speed.progressiveBoostCount = 8
  /\ ~boostHist.late
  /\ now - boostHist.since = 90000

\* an increase came late, and the multiplier is behind the closed form
C13_WitnessLate ==
  /\ ev.type = "speed"
  /\ speed.speedBoostLogged /\ boostHist.late
  /\ speed.progressiveBoostCount < Min(8, (now - boostHist.since) \div 10000)

\* C14: the call that first sees fewer than 8 players returns 1.5 and leaves
\* the progressive state at (1.0, 0 increases, last increase = now); the call
\* 10s later returns 1.875; the call that sees 8 players or more while the
\* boost is on returns 1.0 and leaves the initial speed state.
C14_BoostEdges ==
  [][\A activePlayers \in ActiveCounts, dt \in SpeedDts :
       SpeedTick(activePlayers, dt) =>
         /\ (~speed.speedBoostLogged /\ activePlayers < 8)
              => /\ ev'.arg = 48
                 /\ speed' = [speedBoostLogged           |-> TRUE,
                              progressiveSpeedMultiplier |-> 4,
                              progressiveBoostCount      |-> 0,
                              lastProgressiveBoostTime   |-> now']
         /\ (/\ speed.speedBoostLogged /\ activePlayers < 8
             /\ speed.progressiveBoostCount = 0
             /\ now' - boostHist.since >= 10000)
              => (ev'.arg = 60 /\ speed'.progressiveBoostCount = 1)
         /\ (speed.speedBoostLogged /\ activePlayers >= 8)
              => /\ ev'.arg = 32
                 /\ speed' = [speedBoostLogged           |-> FALSE,
                              progressiveSpeedMultiplier |-> 4,
                              progressiveBoostCount      |-> 0,
                              lastProgressiveBoostTime   |-> 0]]_vars

\* 10s after the player count dropped below 8 the multiplier is 1.875
C14_Witness ==
  /\ ev.type = "speed" /\ ev.arg = 60
  /\ speed.speedBoostLogged /\ speed.progressiveBoostCount = 1
  /\ speed.lastProgressiveBoostTime = now
  /\ now - boostHist.since = 10000

\* C15: when a respawn completes, the speed state is (not boosted,
\* progressive multiplier 1.0, 0 increases), for every roster size.
C15_RespawnResetsSpeed ==
  [][(ev'.type = "update" /\ Len(boxes') > Len(boxes))
       => /\ ~speed'.speedBoostLogged
          /\ speed'.progressiveSpeedMultiplier = 4
          /\ speed'.progressiveBoostCount = 0]_vars

\* t is s without its leading and trailing spaces
IsTrimOf(t, s) ==
  \E i \in 1 .. Len(s) + 1, j \in 0 .. Len(s) :
    /\ t = SubSeq(s, i, j)
    /\ \A k \in 1 .. i - 1 : s[k] = " "
    /\ \A k \in j + 1 .. Len(s) : s[k] = " "
    /\ t # <<>> => (t[1] # " " /\ t[Len(t)] # " ")

\* C16: whatever the fetched names are, the roster starts with the
\* guaranteed name, holds it once, holds every other non-empty trimmed name
\* once in the order of first appearance, and holds nothing else.
C16_RosterWellFormed ==
  pc \in {"named", "created"} =>
    LET roster == GetPlayerNames(youtubeNames)
        Valid(n) == n # <<>> /\ \E k \in 1 .. Len(youtubeNames) : IsTrimOf(n, youtubeNames[k])
        FirstSeen(n) == CHOOSE k \in 1 .. Len(youtubeNames) :
                          /\ IsTrimOf(n, youtubeNames[k])
                          /\ \A m \in 1 .. k - 1 : ~IsTrimOf(n, youtubeNames[m])
    IN  /\ Len(roster) >= 1
        /\ roster[1] = ElodineCodes
        /\ \A i, j \in 1 .. Len(roster) : i # j => roster[i] # roster[j]
        /\ \A i \in 2 .. Len(roster) : Valid(roster[i])
        /\ \A k \in 1 .. Len(youtubeNames) :
             \A a, b \in 1 .. Len(youtubeNames[k]) :
               LET n == SubSeq(youtubeNames[k], a, b)
               IN  (n # <<>> /\ IsTrimOf(n, youtubeNames[k]))
                     => \E i \in 1 .. Len(roster) : roster[i] = n
        /\ \A i, j \in 2 .. Len(roster) :
             i < j => FirstSeen(roster[i]) < FirstSeen(roster[j])

\* a list with a blank string, the guaranteed name padded and one name in
\* two paddings gave the players E and B
C16_Witness ==
  /\ pc = "created"
  /\ youtubeNames = << <<" ">>, <<" ", "B", " ">>, <<" ", "E">>, <<"B">> >>
  /\ Len(boxes) = 2
  /\ boxes[1].playerName = <<"E">>
  /\ boxes[2].playerName = <<"B">>

\* C17: when the name fetch fails, create() goes on with an empty list: the
\* roster is the guaranteed name alone, one player is created and the round
\* starts as usual.
C17_FetchFailureFallsBack ==
  [][\A res \in FetchResults, rnd \in MatchRnds :
       (~res.ok /\ FetchDone(res, rnd)) =>
         /\ youtubeNames' = <<>>
         /\ GetPlayerNames(youtubeNames') = <<ElodineCodes>>
         /\ Len(boxes') = 1
         /\ boxes'[1].playerName = ElodineCodes
         /\ DOMAIN scores' = {ElodineCodes}
         /\ scores'[ElodineCodes] = 0
         /\ pc' = "running"
         /\ gsm'.created
         /\ gsm'.gameStartTime = now
         /\ IsGracePeriodActive(gsm', now')]_vars

\* the fetch failed after frames had run with the request pending, and the
\* round has started with the guaranteed player alone
C17_Witness ==
  /\ ev.type = "create" /\ ev.kind = "fetchFailed"
  /\ pc = "running"
  /\ now > Epoch
  /\ Len(boxes) = 1
  /\ boxes[1].playerName = ElodineCodes
  /\ gsm.gameStartTime = now

\* C18: once the scores are initialised, no step lowers a name's score or
\* drops its entry, be it an elimination, an announcement or a respawn.
C18_ScoresCumulative ==
  [][pc = "running" =>
       \A n \in DOMAIN scores : n \in DOMAIN scores' /\ scores'[n] >= scores[n]]_vars

\* a player that had won a point and was then eliminated is back after the
\* respawn with its point, next to the round's winner
C18_Witness ==
  /\ ev.type = "update" /\ ev.kind = "respawn"
  /\ Len(boxes) = 3
  /\ scores[boxes[1].playerName] = 1
  /\ \E k \in 2 .. 3 : scores[boxes[k].playerName] = 1

\* text lists min(8, number of entries) names of the score map sc, each once
\* with its score, in non-increasing score order, marked "+" when in
\* activePlayers and "-" otherwise, and leaves out no name that has a higher
\* score than a name it lists
ScoreTextMatches(text, sc, activePlayers) ==
  LET listed == {text[i].name : i \in 1 .. Len(text)}
  IN  /\ Len(text) = Min(8, Cardinality(DOMAIN sc))
      /\ \A i \in 1 .. Len(text) :
           /\ text[i].name \in DOMAIN sc
           /\ text[i].score = sc[text[i].name]
           /\ text[i].indicator = IF text[i].name \in activePlayers THEN "+" ELSE "-"
      /\ \A i, j \in 1 .. Len(text) :
           i < j => (text[i].score >= text[j].score /\ text[i].name # text[j].name)
      /\ \A n \in DOMAIN sc \ listed : \A i \in 1 .. Len(text) : sc[n] <= text[i].score

\* C19: the score text computed by updateScoreDisplay, and so by every tick
\* once the texts exist, lists min(8, number of score entries) lines in
\* non-increasing score order, marks a line "+" exactly when its name is
\* active, and omits no name that beats a listed one.
C19_ScoreTextTopEight ==
  [][/\ \A activePlayers \in ActiveSets :
          ScoreTick(activePlayers) => ScoreTextMatches(gsm'.scoreText, scores, activePlayers)
     /\ (ev'.type = "update" /\ gsm.created)
          => ScoreTextMatches(gsm'.scoreText, scores, ActiveNames(boxes))]_vars

\* of nine names the eight with a point are listed and the first name of the
\* map, without a point, is left out; active and inactive names are listed
C19_Witness ==
  /\ ev.type = "score"
  /\ Cardinality(DOMAIN scores) = 9
  /\ scores[ElodineCodes] = 0
  /\ Len(gsm.scoreText) = 8
  /\ \A i \in 1 .. 8 : gsm.scoreText[i].score = 1
  /\ gsm.scoreText[1].indicator = "+"
  /\ gsm.scoreText[2].indicator = "-"

\* C20: in every reachable state the active players' names are pairwise
\* distinct and belong to the roster, so there are at most as many active
\* players as roster names.
C20_ActiveNamesUniqueInRoster ==
  /\ \A i, j \in 1 .. Len(boxes) : i # j => boxes[i].playerName # boxes[j].playerName
  /\ \A i \in 1 .. Len(boxes) : boxes[i].playerName \in RosterNames
  /\ Len(boxes) <= RosterSize

\* after eliminations and a respawn the three roster names are active again,
\* led by a survivor that is not the first name of the roster
C20_Witness ==
  /\ ev.type = "update" /\ ev.kind = "respawn"
  /\ RosterSize = 3
  /\ ActiveNames(boxes) = RosterNames
  /\ boxes[1].playerName # ElodineCodes
  /\ \E n \in DOMAIN scores : scores[n] > 0

\* C21: with a roster of at least two names and frames that keep coming,
\* every announced winner is eventually followed by a respawn that clears
\* the announcement, has every roster name active and starts a new grace
\* period.
C21_AnnouncementLeadsToRespawn ==
  (RosterSize >= 2 /\ gsm.winnerAnnounced)
    ~> (/\ ev.type = "update" /\ ev.kind = "respawn"
        /\ ~gsm.winnerAnnounced /\ ~gsm.winnerVisible
        /\ ActiveNames(boxes) = RosterNames
        /\ Len(boxes) = RosterSize
        /\ gsm.gameStartTime = now
        /\ IsGracePeriodActive(gsm, now))

\* a winner announced in the last frame before MaxElapsed got its respawn
\* 3000ms later, with the three roster names active
C21_Witness ==
  /\ ev.type = "update" /\ ev.kind = "respawn"
  /\ RosterSize = 3
  /\ ActiveNames(boxes) = RosterNames
  /\ gsm.winnerAnnounceTime - Epoch <= MaxElapsed
  /\ gsm.winnerAnnounceTime + 1000 - Epoch > MaxElapsed
  /\ now - gsm.winnerAnnounceTime = 3000
  /\ gsm.gameStartTime = now

\* C22: while the name fetch is pending no player exists, no score entry
\* exists, the texts and the round start time are not set, and the ticks
\* that run meanwhile announce no winner and spawn nobody; all of these
\* come with the step in which the fetch settles.
C22_NothingStartsWhileFetching ==
  /\ pc = "fetching"
       => /\ boxes = <<>>
          /\ DOMAIN scores = {}
          /\ ~gsm.created
          /\ gsm.gameStartTime = 0
          /\ ~IsGracePeriodActive(gsm, now)
          /\ ~gsm.winnerAnnounced /\ ~gsm.winnerVisible
          /\ ev.kind \notin {"announce", "respawn", "wait"}
  /\ (ev.type = "create" /\ ev.kind \in {"round", "fetchFailed"})
       => /\ pc = "running"
          /\ Len(boxes) = RosterSize
          /\ DOMAIN scores = RosterNames
          /\ gsm.created
          /\ gsm.gameStartTime = now

\* two ticks have run, 3500ms apart, with the fetch still pending
C22_Witness ==
  /\ pc = "fetching"
  /\ ev.type = "update" /\ ev.kind = "none"
  /\ now - Epoch = 3500
  /\ speed.speedBoostLogged

\* C23: the SpeedManager always holds between 0 and 8 increases and the
\* progressive multiplier 1 + 0.25 x increases, at most 3.0; the multiplier
\* it returns is at most 4.5; and while the boost is off it holds 0
\* increases and the progressive multiplier 1.0.
C23_BoostWithinBounds ==
  /\ speed.progressiveBoostCount \in 0 .. 8
  /\ speed.progressiveSpeedMultiplier = 4 + speed.progressiveBoostCount
  /\ speed.progressiveSpeedMultiplier <= 12
  /\ ev.type = "speed" => (ev.arg <= 144 /\ ev.arg >= MultDen)
  /\ ~speed.speedBoostLogged
       => (speed.progressiveBoostCount = 0 /\ speed.progressiveSpeedMultiplier = 4)

\* a call made 10s or more after the eighth increase applied no ninth and
\* returned 4.5
C23_Witness ==
  /\ ev.type = "speed" /\ ev.arg = 144
  /\ speed.speedBoostLogged
  /\ speed.progressiveBoostCount = 8
  /\ now - speed.lastProgressiveBoostTime >= 10000

\* C24: a contact that is processed, during the grace period or after it,
\* leaves both players (after a stomp: the remaining one) with the cooldown
\* timestamp now and no other player's timestamp changed; a contact that is
\* ignored changes no timestamp.
C24_CooldownsSetTogether ==
  [][\A i, j \in 1 .. Len(boxes) :
       Contact(i, j) =>
         LET Stamp(bs, n) ==
               {bs[k].lastCollision : k \in {m \in 1 .. Len(bs) : bs[m].playerName = n}}
             pair == {boxes[i].playerName, boxes[j].playerName}
         IN  /\ ev'.kind = "cooldown" <=> now - boxes[i].lastCollision < 500
             /\ ev'.kind = "cooldown"
                  => \A n \in ActiveNames(boxes) : Stamp(boxes', n) = Stamp(boxes, n)
             /\ ev'.kind \in {"grace", "side"}
                  => /\ ActiveNames(boxes') = ActiveNames(boxes)
                     /\ \A n \in pair : Stamp(boxes', n) = {now}
             /\ ev'.kind = "stomp"
                  => /\ Cardinality(pair \cap ActiveNames(boxes')) = 1
                     /\ \A n \in pair \cap ActiveNames(boxes') : Stamp(boxes', n) = {now}
             /\ ev'.kind = "grace" <=> (now - boxes[i].lastCollision >= 500
                                        /\ IsGracePeriodActive(gsm, now))
             /\ \A n \in ActiveNames(boxes') \ pair : Stamp(boxes', n) = Stamp(boxes, n)]_vars

\* during the grace period two of three players met and carry the same
\* timestamp, which the third, bounced in an earlier frame, does not
C24_Witness ==
  /\ ev.type = "contact" /\ ev.kind = "grace"
  /\ IsGracePeriodActive(gsm, now)
  /\ Len(boxes) = 3
  /\ \E a, b, c \in 1 .. 3 :
       /\ {a, b, c} = {1, 2, 3}
       /\ boxes[a].lastCollision = now /\ boxes[b].lastCollision = now
       /\ boxes[c].lastCollision > 0 /\ boxes[c].lastCollision < now

\* C25: a processed contact that eliminates nobody reverses both players'
\* horizontal velocities, scaled by 0.8 during the grace period and by 1.2
\* after it (tops within 10px), and sets their cooldowns; it changes no
\* other field of any player, no score, no membership and no match state.
C25_BounceChangesOnlyVelocityX ==
  [][\A i, j \in 1 .. Len(boxes) :
       (Contact(i, j) /\ ev'.kind \in {"grace", "side"}) =>
         LET Rest(p) == [p EXCEPT !.vx = 0, !.lastCollision = 0]
         IN  /\ ev'.kind = "grace"
                  => /\ IsGracePeriodActive(gsm, now)
                     /\ \A k \in {i, j} : 5 * boxes'[k].vx = -4 * boxes[k].vx
             /\ ev'.kind = "side"
                  => /\ ~IsGracePeriodActive(gsm, now)
                     /\ Abs(Top(boxes[i]) - Top(boxes[j])) <= 10
                     /\ \A k \in {i, j} : 5 * boxes'[k].vx = -6 * boxes[k].vx
             /\ Len(boxes') = Len(boxes)
             /\ \A k \in 1 .. Len(boxes) :
                  /\ Rest(boxes'[k]) = Rest(boxes[k])
                  /\ k \notin {i, j} => boxes'[k] = boxes[k]
             /\ scores' = scores
             /\ gsm' = gsm]_vars

\* after the grace period a side bounce left a player moving against its
\* stored direction at 1.2 times the speed the last tick had given it
C25_Witness ==
  /\ ev.type = "contact" /\ ev.kind = "side"
  /\ \E i, j \in 1 .. Len(boxes) :
       /\ i # j
       /\ boxes[i].lastCollision = now /\ boxes[j].lastCollision = now
       /\ \A k \in {i, j} :
            /\ boxes[k].vx * boxes[k].direction < 0
            /\ 5 * Abs(boxes[k].vx) = 6 * boxes[k].horizontalSpeed * 48 * (VelDen \div MultDen)

\* C26: a contact that names a destroyed player object, as either
\* argument, changes nothing: no score, no player's fields or membership,
\* no cooldown, no match state; so a player eliminated earlier in the
\* physics step neither wins nor scores nor is removed again.
C26_StaleContactIsNoOp ==
  [][\A y \in Ys, j \in 1 .. Len(boxes), first \in BOOLEAN :
       StaleContact(y, j, first)
         => /\ ev'.kind = "stale"
            /\ boxes' = boxes
            /\ scores' = scores
            /\ gsm' = gsm
            /\ recent' = recent
            /\ speed' = speed]_vars

\* in the step that first allowed a stomp, one of three players was
\* eliminated and the collider then reported the destroyed object
C26_Witness ==
  /\ ev.type = "contact" /\ ev.kind = "stale"
  /\ frame = "step"
  /\ now - gsm.gameStartTime = 3000
  /\ gsm.gameStartTime = Epoch
  /\ Len(boxes) = 2
  /\ \E k \in 1 .. 2 : scores[boxes[k].playerName] = 1 /\ boxes[k].lastCollision = now

\* C27: spawnRandomPlayer called while every roster name is active returns
\* without creating a player: the group, the scores and the match state
\* are as before.
C27_SpawnWithFullRosterSkips ==
  [][\A rnd \in SpawnRnds :
       (SpawnRequest(rnd) /\ ActiveNames(boxes) = RosterNames)
         => /\ ev'.kind = "skipped"
            /\ boxes' = boxes
            /\ scores' = scores
            /\ gsm' = gsm
            /\ speed' = speed
            /\ youtubeNames' = youtubeNames]_vars

\* a roster of four was complete again after a removal and a spawn, and a
\* further spawn request was skipped
C27_Witness ==
  /\ ev.type = "spawn" /\ ev.kind = "skipped"
  /\ RosterSize = 4
  /\ ActiveNames(boxes) = RosterNames
  /\ Len(boxes) = 4
  /\ boxes[4].x < boxes[1].x

\* C28: a tick gives every active player the horizontal velocity
\* horizontalSpeed x speed multiplier of the tick x direction, with the
\* values the player stored before the tick, whatever velocity a bounce had
\* left; it keeps the vertical velocity unless the player flaps in this
\* tick; and a contact changes no remaining player's stored direction or
\* horizontalSpeed.
C28_TickRestoresVelocityX ==
  [][/\ ev'.type = "update" =>
          LET base == IF Len(boxes) < 8 THEN 12 ELSE 8
              multiplier == base * speed'.progressiveSpeedMultiplier
          IN  \A k \in 1 .. Len(boxes) :
                /\ boxes'[k].playerName = boxes[k].playerName
                /\ MultDen * boxes'[k].vx
                     = boxes[k].horizontalSpeed * multiplier * boxes[k].direction * VelDen
                /\ (now - Epoch) - boxes[k].lastFlapTime <= boxes[k].nextFlapTime
                     => boxes'[k].vy = boxes[k].vy
     /\ ev'.type = "contact" =>
          \A k \in 1 .. Len(boxes') : \E m \in 1 .. Len(boxes) :
            /\ boxes[m].playerName = boxes'[k].playerName
            /\ boxes[m].direction = boxes'[k].direction
            /\ boxes[m].horizontalSpeed = boxes'[k].horizontalSpeed]_vars

\* a player that bounced in this frame, after the grace period, moves again
\* along its stored direction, leftwards, at its stored speed times 1.5
C28_Witness ==
  /\ ev.type = "update"
  /\ frame = "updated"
  /\ ~IsGracePeriodActive(gsm, now)
  /\ Len(boxes) = 2
  /\ boxes[1].lastCollision = now
  /\ boxes[1].direction = -1
  /\ boxes[1].vx < 0
  /\ 2 * boxes[1].vx = 3 * boxes[1].horizontalSpeed * boxes[1].direction * VelDen

\* C29: in a tick at loop time t a player flaps exactly when
\* t - lastFlapTime > nextFlapTime; the flap sets its vertical velocity to
\* -180 with fewer than 8 active players and to -150 otherwise, leaves the
\* horizontal velocity the tick has set, sets lastFlapTime = t and draws
\* nextFlapTime from 1000..2500 resp. 1500..4000; without a flap the
\* vertical velocity, lastFlapTime and nextFlapTime stay as they were.
C29_FlapExactlyWhenDue ==
  [][ev'.type = "update" =>
       \A k \in 1 .. Len(boxes) :
         LET p == boxes[k]
             q == boxes'[k]
             t == now - Epoch
             few == Len(boxes) < 8
             multiplier == (IF few THEN 12 ELSE 8) * speed'.progressiveSpeedMultiplier
             flapped == q.lastFlapTime # p.lastFlapTime \/ q.vy # p.vy
                          \/ q.nextFlapTime # p.nextFlapTime
         IN  /\ t - p.lastFlapTime > p.nextFlapTime
                  => /\ q.vy = (IF few THEN -180 ELSE -150) * VelDen
                     /\ q.lastFlapTime = t
                     /\ q.nextFlapTime \in (IF few THEN 1000 .. 2500 ELSE 1500 .. 4000)
                     /\ MultDen * q.vx = p.horizontalSpeed * multiplier * p.direction * VelDen
             /\ t - p.lastFlapTime <= p.nextFlapTime => ~flapped]_vars

\* one of eight players has flapped for the second time, exactly 2000ms
\* after its first flap: more than the 1500ms it had drawn
C29_Witness ==
  /\ ev.type = "update"
  /\ Len(boxes) = 8
  /\ boxes[3].vy = -150 * VelDen
  /\ boxes[3].lastFlapTime = now - Epoch
  /\ boxes[3].lastFlapTime = 3500
  /\ boxes[3].nextFlapTime \in 1500 .. 4000

\* C30: a tick moves a player whose x (resp. y) lies more than 40px beyond
\* an edge of the camera's viewport to exactly 40px outside the opposite
\* edge of the viewport, and does not move a player within 40px of the
\* viewport, wherever the camera stands in the world.
C30_WrapAroundViewport ==
  [][ev'.type = "update" =>
       LET left == camera'.scrollX
           right == camera'.scrollX + CameraWidth
           top == camera'.scrollY
           bottom == camera'.scrollY + CameraHeight
       IN  \A k \in 1 .. Len(boxes) :
             /\ boxes[k].x > right + 40 => boxes'[k].x = left - 40
             /\ boxes[k].x < left - 40 => boxes'[k].x = right + 40
             /\ (boxes[k].x >= left - 40 /\ boxes[k].x <= right + 40)
                  => boxes'[k].x = boxes[k].x
             /\ boxes[k].y > bottom + 40 => boxes'[k].y = top - 40
             /\ boxes[k].y < top - 40 => boxes'[k].y = bottom + 40
             /\ (boxes[k].y >= top - 40 /\ boxes[k].y <= bottom + 40)
                  => boxes'[k].y = boxes[k].y]_vars

\* under the scrolled camera a player that the physics step had left inside
\* the world, above and left of the viewport, stands 40px beyond the
\* viewport's right and bottom edges
C30_Witness ==
  /\ ev.type = "update"
  /\ camera.scrollX > 0 /\ camera.scrollY > 0
  /\ Len(boxes) >= 1
  /\ boxes[1].x = camera.scrollX + CameraWidth + 40
  /\ boxes[1].y = camera.scrollY + CameraHeight + 40

\* the times at which a round can start: the creation and, no sooner than
\* the grace period and the winner's wait later, the frames of the respawns
RoundStarts ==
  {Epoch} \cup {Epoch + GracePeriodMs + WinnerWaitMs + k * 250 :
                  k \in 0 .. (MaxElapsed - GracePeriodMs - WinnerWaitMs) \div 250}

\* C31: the fight message is visible after a tick exactly when the tick ran
\* with 3000ms <= now - gameStartTime < 4000ms and is never visible together
\* with the grace period text; "FIGHT MESSAGE ACTIVATED" is logged exactly
\* by the tick that makes the message visible, and within one round (one
\* value of gameStartTime) fightMessageLogged never becomes true a second
\* time, however many ticks fall inside the window.
C31_FightCueOncePerRound ==
  /\ [][(ev'.type = "update" /\ pc = "running") =>
          LET elapsed == now - gsm.gameStartTime
              activated == ~gsm.fightMessageLogged /\ gsm'.fightMessageLogged
          IN  /\ gsm'.fightVisible <=> (3000 <= elapsed /\ elapsed < 4000)
              /\ ~(gsm'.fightVisible /\ gsm'.graceVisible)
              /\ activated <=> (gsm'.fightVisible /\ ~gsm.fightVisible)
              /\ gsm'.gameStartTime \in RoundStarts]_vars
  /\ \A s \in RoundStarts :
        []((gsm.gameStartTime = s /\ gsm.fightMessageLogged)
             => []((gsm.gameStartTime = s /\ ~gsm.fightMessageLogged)
                     => [](gsm.gameStartTime = s => ~gsm.fightMessageLogged)))

\* a tick 500ms into the window of the first round, after the tick that
\* opened the window: the message is visible and stays logged
C31_Witness ==
  /\ ev.type = "update"
  /\ now - gsm.gameStartTime = 3500
  /\ gsm.fightVisible /\ gsm.fightMessageLogged /\ ~gsm.graceVisible

\* the step left the player at index k active, with the velocity it had
Untouched(k) ==
  \E m \in 1 .. Len(boxes') :
    /\ boxes'[m].playerName = boxes[k].playerName
    /\ boxes'[m].vx = boxes[k].vx
    /\ boxes'[m].vy = boxes[k].vy

\* C32 as stated: a contact neither eliminates nor bounces a player that was
\* in a processed contact less than 500ms before, and scores nobody against
\* it, whether the player is passed as first or as second argument and
\* whoever the other player is.
C32_CooldownProtectsBoth ==
  [][\A i, j \in 1 .. Len(boxes) :
       (i # j /\ Contact(i, j))
         => \A k \in {i, j} :
              now - boxes[k].lastCollision < 500 => (Untouched(k) /\ scores' = scores)]_vars

\* C32 amended: a contact whose first argument was in a processed contact
\* less than 500ms before changes no player and no score; a contact whose
\* first argument was not is processed and stamps both players, however
\* recent the second argument's last processed contact is.
C32_CooldownOfFirstArgument ==
  [][\A i, j \in 1 .. Len(boxes) :
       (i # j /\ Contact(i, j))
         => /\ now - boxes[i].lastCollision < 500
                 => (boxes' = boxes /\ scores' = scores /\ ev'.kind = "cooldown")
            /\ now - boxes[i].lastCollision >= 500
                 => /\ ev'.kind \in {"grace", "side", "stomp"}
                    /\ \A m \in 1 .. Len(boxes') :
                         boxes'[m].playerName \in {boxes[i].playerName, boxes[j].playerName}
                           => boxes'[m].lastCollision = now]_vars

\* a player bounced off two others during one physics step: the second
\* contact found it, as second argument, stamped by the first
C32_Witness ==
  /\ ev.type = "contact" /\ ev.kind = "side"
  /\ \E c, d \in recent :
       /\ c # d /\ c.at = now /\ d.at = now
       /\ c.pair \cap d.pair # {}
  /\ \A k \in 1 .. Len(boxes) : boxes[k].lastCollision = now

\* C33: whenever a winner is announced (the flag is set or the winner text
\* is visible) the grace period is not active, that is at least 3000ms have
\* passed since gameStartTime; so no winner is announced during the grace
\* period and no grace period runs while an announcement is pending.
C33_WinnerAndGraceExclusive ==
  (gsm.winnerAnnounced \/ gsm.winnerVisible)
    => (now - gsm.gameStartTime >= 3000 /\ ~IsGracePeriodActive(gsm, now))

\* a tick found the announced winner still waiting for the respawn
C33_Witness ==
  /\ ev.type = "update" /\ ev.kind = "wait"
  /\ gsm.winnerAnnounced /\ gsm.winnerVisible
  /\ now > gsm.winnerAnnounceTime
  /\ now - gsm.gameStartTime >= 3000

\* C34: after every tick of a match with more than one roster name, and
\* after its creation, the winner is announced exactly when at most one
\* player is active.  A tick announces a winner only if no winner has been
\* announced since the round started, and only a respawn ends a round, which
\* it does only after the round's announcement: announcements and respawns
\* alternate.
C34_AnnouncedIffOneLeft ==
  /\ []((pc = "running" /\ frame = "updated" /\ RosterSize > 1)
          => (gsm.winnerAnnounced <=> Len(boxes) <= 1))
  /\ [][(pc = "running" /\ RosterSize > 1) =>
          /\ ev'.kind = "announce"
               => /\ ~gsm.winnerAnnounced /\ gsm'.winnerAnnounced
                  /\ gsm.winnerAnnounceTime < gsm.gameStartTime
                  /\ gsm'.winnerAnnounceTime = now
                  /\ gsm'.gameStartTime = gsm.gameStartTime
          /\ ev'.kind = "respawn"
               => /\ gsm.winnerAnnounced /\ ~gsm'.winnerAnnounced
                  /\ gsm.winnerAnnounceTime >= gsm.gameStartTime
                  /\ gsm'.gameStartTime = now
          /\ ev'.kind \notin {"announce", "respawn"}
               => /\ gsm'.winnerAnnounced = gsm.winnerAnnounced
                  /\ gsm'.winnerAnnounceTime = gsm.winnerAnnounceTime
                  /\ gsm'.gameStartTime = gsm.gameStartTime]_vars

\* the winner of the second round has been announced, after the respawn
\* that followed the first round's announcement
C34_Witness ==
  /\ ev.type = "update" /\ ev.kind = "announce"
  /\ RosterSize = 2
  /\ gsm.gameStartTime > Epoch
  /\ gsm.winnerAnnounced /\ gsm.winnerAnnounceTime = now
  /\ Len(boxes) = 1

RECURSIVE SumOver(_, _)
\* the sum of the scores of the names in the set ns
SumOver(sc, ns) ==
  IF ns = {} THEN 0
  ELSE LET n == CHOOSE m \in ns : TRUE
       IN  sc[n] + SumOver(sc, ns \ {n})

SumScores(sc) == SumOver(sc, DOMAIN sc)

\* the players eliminated since the scores were initialised, in a match that
\* is in its first or second round: every finished round eliminated all
\* roster names but one, the running round those that are not active
EliminatedSoFar ==
  (IF gsm.gameStartTime = Epoch THEN 0 ELSE RosterSize - 1)
    + (RosterSize - Len(boxes))

\* C35: once the scores are initialised their sum equals the number of
\* players eliminated so far; a processed stomp removes exactly one player
\* and adds exactly 1 to exactly one score, that of a player who stays
\* active, and no other step of the match changes a score or, being a
\* contact, removes a player.
C35_ScoresCountEliminations ==
  /\ [](pc = "running" => SumScores(scores) = EliminatedSoFar)
  /\ [][pc = "running" =>
          IF ev'.type = "contact" /\ ev'.kind = "stomp"
          THEN /\ Len(boxes') = Len(boxes) - 1
               /\ Cardinality(ActiveNames(boxes) \ ActiveNames(boxes')) = 1
               /\ DOMAIN scores' = DOMAIN scores
               /\ \E n \in ActiveNames(boxes') :
                    /\ scores'[n] = scores[n] + 1
                    /\ \A m \in DOMAIN scores \ {n} : scores'[m] = scores[m]
          ELSE /\ scores' = scores
               /\ ev'.type = "contact" => ActiveNames(boxes') = ActiveNames(boxes)]_vars

\* the second round of a roster of two has had its stomp: two eliminations
\* in all, one in each round
C35_Witness ==
  /\ ev.type = "contact" /\ ev.kind = "stomp"
  /\ RosterSize = 2
  /\ gsm.gameStartTime > Epoch
  /\ Len(boxes) = 1
  /\ SumScores(scores) = 2

\* C36: once the players are created at least one player is active in every
\* state, whatever contacts and ticks have happened, and while a winner is
\* announced the name shown is the name of the player that is active, never
\* the placeholder "Winner".
C36_WinnerIsActivePlayer ==
  pc = "running" =>
    /\ Len(boxes) >= 1
    /\ (gsm.winnerAnnounced \/ gsm.winnerVisible)
         => /\ gsm.winnerText \in ActiveNames(boxes)
            /\ gsm.winnerText \in RosterNames
            /\ gsm.winnerText # <<"W">>

\* the last player of a roster of three, who has scored, is shown as the
\* winner while the respawn is awaited
C36_Witness ==
  /\ ev.type = "update" /\ ev.kind = "wait"
  /\ RosterSize = 3
  /\ Len(boxes) = 1
  /\ gsm.winnerVisible /\ gsm.winnerText = boxes[1].playerName
  /\ scores[gsm.winnerText] >= 1

C38_AnnouncementIdempotent ==
  [][gsm.winnerAnnounced =>
       /\ ev'.type = "announce" => gsm' = gsm
       /\ gsm'.winnerAnnounced
            => /\ gsm'.winnerText = gsm.winnerText
               /\ gsm'.winnerAnnounceTime = gsm.winnerAnnounceTime
       /\ ev'.type = "update"
            => (ev'.kind = "respawn" <=> now - gsm.winnerAnnounceTime >= 3000)]_vars

\* a request made 2000ms after the announcement of the remaining player
\* left the announcement as it was
C38_Witness ==
  /\ ev.type = "announce" /\ ev.kind = "repeated"
  /\ gsm.winnerAnnounced
  /\ now - gsm.winnerAnnounceTime = 2000
  /\ Len(boxes) = 1 /\ gsm.winnerText = boxes[1].playerName

\* C39: a call of calculateSpeedMultiplier raises progressiveBoostCount by
\* one at most, and only when the boost was already on and the previous
\* increase (or, before the first, the activation) lies 10000ms or more
\* back; so t ms after the activation of the boost the count is at most
\* min(8, floor(t / 10000)), however the calls are spaced.
C39_IncreasesTenSecondsApart ==
  /\ [](speed.speedBoostLogged
          => speed.progressiveBoostCount <= Min(8, (now - boostHist.since) \div 10000))
  /\ [][/\ speed'.progressiveBoostCount <= speed.progressiveBoostCount + 1
         /\ speed'.progressiveBoostCount > speed.progressiveBoostCount
              => /\ speed.speedBoostLogged /\ speed'.speedBoostLogged
                 /\ now' - speed.lastProgressiveBoostTime >= 10000
                 /\ speed.lastProgressiveBoostTime >= boostHist.since
                 /\ speed'.lastProgressiveBoostTime = now']_vars

\* calls 4000ms apart: 20000ms after the activation one increase has been
\* applied, at 12000ms, and the second is not yet due
C39_Witness ==
  /\ ev.type = "speed"
  /\ speed.speedBoostLogged
  /\ now - boostHist.since = 20000
  /\ speed.progressiveBoostCount = 1
  /\ now - speed.lastProgressiveBoostTime = 8000

\* C40: with the camera where the tick left it, handleScreenWrapping applied
\* once more to a player the tick has just wrapped or left in place changes
\* nothing; in particular a player standing exactly 40px outside an edge of
\* the viewport, where a wrap puts it, is not wrapped by the next tick.
C40_WrapIdempotent ==
  [][ev'.type = "update" =>
       \A k \in 1 .. Len(boxes) :
         /\ HandleScreenWrapping(boxes'[k], camera') = boxes'[k]
         /\ (/\ boxes[k].x \in {camera'.scrollX - 40, camera'.scrollX + CameraWidth + 40}
             /\ boxes[k].y \in {camera'.scrollY - 40, camera'.scrollY + CameraHeight + 40})
              => (boxes'[k].x = boxes[k].x /\ boxes'[k].y = boxes[k].y)]_vars

\* after a tick the first player stands exactly 40px outside the left and
\* top edges of the viewport, wrapped there from beyond the right and bottom
\* edges or found there and left in place
C40_Witness ==
  /\ ev.type = "update"
  /\ Len(boxes) >= 1
  /\ boxes[1].x = camera.scrollX - 40
  /\ boxes[1].y = camera.scrollY - 40

====
